---- MODULE Spec2Model ----
(***************************************************************************)
(* Model of bamboo.treeoperations: the operation-node object model         *)
(* (TupleOp and its subclasses), its lazily cached repr/hash, value        *)
(* equality, deep clone with a memo table, the placeholder index           *)
(* assignment of the higher-order factories and the systematic-variation   *)
(* wrappers (changeVariation).                                             *)
(*                                                                         *)
(* Python objects live in a heap: a sequence of node records, a node's     *)
(* identity (id(self)) being its position.  Python strings are sequences   *)
(* of tokens: text that the code takes apart (variation names) is spelled  *)
(* character by character, fixed format text is one token per piece.       *)
(***************************************************************************)
EXTENDS Integers, Sequences, FiniteSets, TLC

VARIABLES heap, last, clones, rendered, stack, defCache, mod

vars == <<heap, last, clones, rendered, stack, defCache, mod>>

(***************************************************************************)
(* Bounds of the model                                                     *)
(***************************************************************************)
MaxClones == 2
HashMod == 5
MaxDepth == 2
MaxBuilt == 2

(***************************************************************************)
(* Python strings                                                          *)
(***************************************************************************)
Lower == <<"a", "b", "d", "e", "g", "j", "l", "m", "n", "o", "p", "s", "t", "u", "w", "x">>
Upper == <<"A", "B", "D", "E", "G", "J", "L", "M", "N", "O", "P", "S", "T", "U", "W", "X">>

IndexIn(c, s) == IF \E k \in DOMAIN s : s[k] = c THEN CHOOSE k \in DOMAIN s : s[k] = c ELSE 0

ToUpper(c) == IF IndexIn(c, Lower) # 0 THEN Upper[IndexIn(c, Lower)] ELSE c
ToLower(c) == IF IndexIn(c, Upper) # 0 THEN Lower[IndexIn(c, Upper)] ELSE c

\* str.capitalize(): first character upper-cased, the rest lower-cased
Capitalize(s) == [k \in DOMAIN s |-> IF k = 1 THEN ToUpper(s[k]) ELSE ToLower(s[k])]

\* str.startswith(prefix)
StartsWith(s, p) == Len(s) >= Len(p) /\ SubSeq(s, 1, Len(p)) = p

\* s[len(prefix):]
DropPrefix(s, p) == SubSeq(s, Len(p) + 1, Len(s))

Quote == "\""
Apos == "'"

\* '"{0}"'.format(s)
DQuoted(s) == <<Quote>> \o s \o <<Quote>>

RECURSIVE LStrip(_, _)
LStrip(s, c) == IF s # <<>> /\ Head(s) = c THEN LStrip(Tail(s), c) ELSE s

RECURSIVE RStrip(_, _)
RStrip(s, c) == IF s # <<>> /\ s[Len(s)] = c THEN RStrip(SubSeq(s, 1, Len(s) - 1), c) ELSE s

\* s.strip('"')
Strip(s, c) == RStrip(LStrip(s, c), c)

\* values that are Python numbers are one token; everything else is a str
NumTokens == {"0", "1", "0.0", "1.0", "30.0", "-1", "2", "3", "4"}
IsNum(v) == Len(v) = 1 /\ v[1] \in NumTokens

\* repr() of a plain Python value: a number prints bare, a str in quotes
PyRepr(v) == IF IsNum(v) THEN v ELSE <<Apos>> \o v \o <<Apos>>

\* repr() of a list of str
RECURSIVE JoinWith(_, _)
JoinWith(parts, sep) ==
    IF parts = <<>> THEN <<>>
    ELSE IF Len(parts) = 1 THEN parts[1]
    ELSE parts[1] \o sep \o JoinWith(Tail(parts), sep)

PyReprList(l) == <<"[">> \o JoinWith([k \in DOMAIN l |-> PyRepr(l[k])], <<", ">>) \o <<"]">>

\* "{0:d}".format(i)
IntTok(n) ==
    CASE n = -3 -> "-3" [] n = -2 -> "-2" [] n = -1 -> "-1" [] n = 0 -> "0" [] n = 1 -> "1"
      [] n = 2 -> "2" [] n = 3 -> "3" [] n = 4 -> "4" [] n = 5 -> "5" [] n = 6 -> "6"
      [] n = 7 -> "7" [] n = 8 -> "8" [] n = 9 -> "9"
      [] OTHER -> "many"

\* hash() of a str: a many-to-one function of its characters
Alphabet ==
    Lower \o Upper \o
    <<Quote, Apos, "(", ")", ", ", "[", "]", "None", "int", "float", "0", "1", "2", "3",
      "Const", "GetColumn", "ExtVar", "MathOp", "GetItem", "CallMemberMethod", "Select", "Map",
      "LocalVariablePlaceholder", "ScaleFactorWithSystOp", "SystModifiedCollectionOp">>

TokCodes == [t \in {Alphabet[k] : k \in DOMAIN Alphabet} |-> IndexIn(t, Alphabet) + 1]

TokCode(t) == IF t \in DOMAIN TokCodes THEN TokCodes[t] ELSE 1

\* the weighted sum of the character codes of s[lo..hi], by halves
RECURSIVE CodeSum(_, _, _)
CodeSum(s, lo, hi) ==
    IF lo > hi THEN 0
    ELSE IF lo = hi THEN TokCode(s[lo]) * ((lo % 3) + 1)
    ELSE LET mid == (lo + hi) \div 2 IN CodeSum(s, lo, mid) + CodeSum(s, mid + 1, hi)

StrHash(s) == (Len(s) + CodeSum(s, 1, Len(s))) % HashMod

(***************************************************************************)
(* Operation nodes.  One record shape for every subclass of TupleOp; a     *)
(* field a class does not have keeps its blank value.  None is <<>>        *)
(* (for strings, numbers in a one-element sequence, caches) or 0 (for a    *)
(* reference to a node).                                                   *)
(*   typeName : typeName / outType / _retType / typeHint / resultType      *)
(*   name     : name / op                                                  *)
(*   expr     : predExpr / funExpr / accuExpr / candPredExpr               *)
(*   ranges   : rng (one entry) / ranges; a range proxy is held as the     *)
(*              node it stands for                                         *)
(*   idx      : _i (one entry), (_i, _prevRes) of Reduce, the _i tuple of  *)
(*              Combine                                                    *)
(*   hasCache : FALSE when __init__ never ran TupleOp.__init__             *)
(*   nRepr, nHash : how often _repr and the hash computation have run for  *)
(*              the node (observation only, no code reads them)            *)
(***************************************************************************)
None == <<>>

TupleOpCache == [hash |-> None, repr |-> None]

\* a __bool__ that looks at the hash alone
CacheBoolHashOnly(c) == c.hash # None

\* TupleOpCache.__bool__
CacheBool(c) == c.hash # None \/ c.repr # None

TupleOp ==
    [kind |-> "TupleOp", typeName |-> None, name |-> None, value |-> None, length |-> 0,
     this |-> 0, args |-> <<>>, arg |-> 0, index |-> 0, wrapped |-> 0, systName |-> None,
     variations |-> <<>>, ranges |-> <<>>, start |-> 0, expr |-> 0, idx |-> <<>>, i |-> None,
     parent |-> 0, cache |-> TupleOpCache, hasCache |-> TRUE, nRepr |-> 0, nHash |-> 0]

Const(typeName, value) == [TupleOp EXCEPT !.kind = "Const", !.typeName = typeName, !.value = value]

GetColumn(typeName, name) == [TupleOp EXCEPT !.kind = "GetColumn", !.typeName = typeName, !.name = name]

ExtVar(typeName, name) == [TupleOp EXCEPT !.kind = "ExtVar", !.typeName = typeName, !.name = name]

GetArrayColumn(typeName, name, length) ==
    [TupleOp EXCEPT !.kind = "GetArrayColumn", !.typeName = typeName, !.name = name, !.length = length]

MathOp(op, args, outType) ==
    [TupleOp EXCEPT !.kind = "MathOp", !.name = op, !.args = args, !.typeName = outType]

GetItem(arg, valueType, index) ==
    [TupleOp EXCEPT !.kind = "GetItem", !.arg = arg, !.typeName = valueType, !.index = index]

CallMethod(name, args, returnType) ==
    [TupleOp EXCEPT !.kind = "CallMethod", !.name = name, !.args = args, !.typeName = returnType]

CallMemberMethod(this, name, args, returnType) ==
    [TupleOp EXCEPT !.kind = "CallMemberMethod", !.this = this, !.name = name, !.args = args,
                    !.typeName = returnType]

LocalVariablePlaceholder(typeHint, parent, i) ==
    [TupleOp EXCEPT !.kind = "LocalVariablePlaceholder", !.typeName = typeHint, !.parent = parent, !.i = i]

\* Select, Sort, Next: (rng, predExpr / funExpr, idx); Map adds typeName
RangeOp(kind, rng, expr, idx, typeName) ==
    [TupleOp EXCEPT !.kind = kind, !.ranges = <<rng>>, !.expr = expr, !.idx = <<idx>>,
                    !.typeName = typeName]

\* Reduce.__init__ does not call TupleOp.__init__: the node has no _cache
Reduce(rng, resultType, start, accuExpr, idx, prevRes) ==
    [TupleOp EXCEPT !.kind = "Reduce", !.ranges = <<rng>>, !.typeName = resultType, !.start = start,
                    !.expr = accuExpr, !.idx = <<idx, prevRes>>, !.hasCache = FALSE]

Combine(ranges, candPredExpr, idx) ==
    [TupleOp EXCEPT !.kind = "Combine", !.ranges = ranges, !.expr = candPredExpr, !.idx = idx]

OpWithSyst(kind, wrapped, systName, variations) ==
    [TupleOp EXCEPT !.kind = kind, !.wrapped = wrapped, !.systName = systName, !.variations = variations]

\* variations=None: systName + "up", systName + "down"
ScaleFactorWithSystOp(wrapped, systName, variations) ==
    OpWithSyst("ScaleFactorWithSystOp", wrapped, systName,
               IF variations # <<>> THEN variations
               ELSE <<systName \o <<"u", "p">>, systName \o <<"d", "o", "w", "n">>>>)

SystModifiedCollectionOp(wrapped, name, variations) ==
    OpWithSyst("SystModifiedCollectionOp", wrapped, name, variations)

RangeKinds == {"Select", "Sort", "Map", "Next"}
HigherOrderKinds == RangeKinds \cup {"Reduce", "Combine"}
SystKinds == {"ScaleFactorWithSystOp", "SystModifiedCollectionOp"}

Nodes(h) == DOMAIN h

\* the operands of a node, in the order the class lists them
Operands(nd) ==
    (IF nd.length # 0 THEN <<nd.length>> ELSE <<>>) \o
    (IF nd.this # 0 THEN <<nd.this>> ELSE <<>>) \o
    (IF nd.arg # 0 THEN <<nd.arg>> ELSE <<>>) \o
    (IF nd.index # 0 THEN <<nd.index>> ELSE <<>>) \o
    nd.args \o
    (IF nd.wrapped # 0 THEN <<nd.wrapped>> ELSE <<>>) \o
    nd.ranges \o
    (IF nd.start # 0 THEN <<nd.start>> ELSE <<>>) \o
    (IF nd.expr # 0 THEN <<nd.expr>> ELSE <<>>) \o
    nd.idx

Range(s) == {s[k] : k \in DOMAIN s}

\* every node reachable from n through operands (n included)
RECURSIVE ReachFrom(_, _, _)
ReachFrom(h, todo, seen) ==
    IF todo = {} THEN seen
    ELSE LET n == CHOOSE x \in todo : TRUE
             more == Range(Operands(h[n])) \ (seen \cup {n})
         IN  ReachFrom(h, (todo \ {n}) \cup more, seen \cup {n})

Reach(h, n) == ReachFrom(h, {n}, {})

(***************************************************************************)
(* repr and hash, cached on first use (fromopcache)                        *)
(***************************************************************************)
Ok(h, v) == [h |-> h, v |-> v, err |-> ""]
Raise(h, err) == [h |-> h, v |-> <<>>, err |-> err]

\* the rest F of a method after a call r: an exception of the call ends it
Bind(r, F(_, _)) == IF r.err # "" THEN r ELSE F(r.h, r.v)

\* r and F: F is evaluated only when r is true
AndThen(r, F(_)) == IF r.err # "" THEN r ELSE IF ~r.v THEN Ok(r.h, FALSE) ELSE F(r.h)

\* repr() of a tuple of objects whose reprs are rs
PyReprTuple(rs) ==
    <<"(">> \o JoinWith(rs, <<", ">>) \o (IF Len(rs) = 1 THEN <<",">> ELSE <<>>) \o <<")">>

\* repr() of a range proxy shows the node it stands for
ProxyRepr(r) == <<"Proxy(">> \o r \o <<")">>

\* the operands whose repr a node's _repr asks for, in the order it asks
ReprChildren(nd) ==
    CASE nd.kind = "GetArrayColumn" -> <<nd.length>>
      [] nd.kind = "MathOp" -> nd.args
      [] nd.kind = "GetItem" -> <<nd.arg, nd.index>>
      [] nd.kind = "CallMethod" -> nd.args
      [] nd.kind = "CallMemberMethod" -> nd.args \o <<nd.this>>
      [] nd.kind \in RangeKinds \cup {"Combine"} -> nd.ranges \o <<nd.expr>> \o nd.idx
      [] nd.kind \in SystKinds -> <<nd.wrapped>>
      [] OTHER -> <<>>

\* the text of _repr, given the reprs rs of ReprChildren(nd)
ReprFmt(nd, rs) ==
    CASE nd.kind = "Const" ->
           <<"Const", "(">> \o PyRepr(nd.typeName) \o <<", ">> \o PyRepr(nd.value) \o <<")">>
      [] nd.kind \in {"GetColumn", "ExtVar"} ->
           <<nd.kind, "(">> \o PyRepr(nd.typeName) \o <<", ">> \o PyRepr(nd.name) \o <<")">>
      [] nd.kind = "GetArrayColumn" ->
           <<nd.kind, "(">> \o PyRepr(nd.typeName) \o <<", ">> \o PyRepr(nd.name) \o <<", ">>
             \o rs[1] \o <<")">>
      [] nd.kind = "MathOp" ->
           <<"MathOp", "(">> \o nd.name \o <<", ">> \o JoinWith(rs, <<", ">>)
             \o <<", ", "outType=">> \o PyRepr(nd.typeName) \o <<")">>
      [] nd.kind = "GetItem" ->
           <<"GetItem", "(">> \o rs[1] \o <<", ">> \o PyRepr(nd.typeName) \o <<", ">> \o rs[2] \o <<")">>
      [] nd.kind = "CallMethod" ->
           <<"CallMethod", "(">> \o PyRepr(nd.name) \o <<", ", "(">> \o JoinWith(rs, <<", ">>)
             \o <<")", ", ", "returnType=">> \o PyRepr(nd.typeName) \o <<")">>
      [] nd.kind = "CallMemberMethod" ->
           <<"CallMemberMethod", "(">> \o rs[Len(rs)] \o <<", ">> \o PyRepr(nd.name) \o <<", ", "(">>
             \o JoinWith(SubSeq(rs, 1, Len(rs) - 1), <<", ">>)
             \o <<")", ", ", "returnType=">> \o PyRepr(nd.typeName) \o <<")">>
      [] nd.kind = "LocalVariablePlaceholder" ->
           <<nd.kind, "(">> \o PyRepr(nd.typeName) \o <<", ", "i=">>
             \o (IF nd.i = None THEN <<"None">> ELSE <<IntTok(nd.i[1])>>) \o <<")">>
      [] nd.kind \in RangeKinds ->
           <<nd.kind, "(">> \o ProxyRepr(rs[1]) \o <<", ">> \o rs[2] \o <<", ">> \o rs[3]
             \o (IF nd.kind = "Map" THEN <<", ">> \o PyRepr(nd.typeName) ELSE <<>>) \o <<")">>
      [] nd.kind = "Combine" ->
           LET nr == Len(nd.ranges) IN
           <<"Combine", "(">>
             \o PyReprTuple([k \in 1..nr |-> ProxyRepr(rs[k])]) \o <<", ">> \o rs[nr + 1] \o <<", ">>
             \o PyReprTuple(SubSeq(rs, nr + 2, Len(rs))) \o <<")">>
      [] nd.kind \in SystKinds ->
           <<nd.kind, "(">> \o rs[1] \o <<", ">> \o PyRepr(nd.systName) \o <<", ">>
             \o PyReprList(nd.variations) \o <<")">>
      [] OTHER -> <<"TupleOp", "(", ")">>

\* a wrapper that never finds the stored value
CacheMissAlways(c, key) == TRUE

\* getattr(self._cache, key) is None
CacheMiss(c, key) == c[key] = None

\* the repr recomputed from the operands as they are now, no cache consulted
RECURSIVE FreshRepr(_, _)
FreshRepr(h, n) ==
    LET nd == h[n]
        ch == ReprChildren(nd)
    IN  ReprFmt(nd, [k \in DOMAIN ch |-> FreshRepr(h, ch[k])])

RECURSIVE __repr__(_, _)
RECURSIVE ReprAll(_, _)
\* repr of each of ids in turn; the first exception ends it
ReprAll(h, ids) ==
    IF ids = <<>> THEN Ok(h, <<>>)
    ELSE Bind(__repr__(h, Head(ids)), LAMBDA h1, v1 :
              Bind(ReprAll(h1, Tail(ids)), LAMBDA h2, vs : Ok(h2, <<v1>> \o vs)))

\* _repr: Reduce._repr names the undefined self_prevRes
_repr(h, n) ==
    IF h[n].kind = "Reduce" THEN Raise(h, "NameError")
    ELSE Bind(ReprAll(h, ReprChildren(h[n])), LAMBDA h1, rs : Ok(h1, ReprFmt(h[n], rs)))

\* fromopcache(__repr__)
__repr__(h, n) ==
    IF ~h[n].hasCache THEN Raise(h, "AttributeError")
    ELSE IF CacheMiss(h[n].cache, "repr")
         THEN Bind(_repr(h, n), LAMBDA h1, v :
                   Ok([h1 EXCEPT ![n].cache.repr = v, ![n].nRepr = @ + 1], v))
         ELSE Ok(h, h[n].cache.repr)

\* setattr(self._cache, "hash", value)
StoreHash(h, n, value) == Ok([h EXCEPT ![n].cache.hash = value, ![n].nHash = @ + 1], value)

\* fromopcache(__hash__): hash(self.__repr__())
__hash__(h, n) ==
    IF ~h[n].hasCache THEN Raise(h, "AttributeError")
    ELSE IF CacheMiss(h[n].cache, "hash")
         THEN Bind(__repr__(h, n), LAMBDA h1, v : StoreHash(h1, n, <<StrHash(v)>>))
         ELSE Ok(h, h[n].cache.hash)

(***************************************************************************)
(* Equality: identity, or equal hash and equal class and the class's _eq   *)
(***************************************************************************)
\* one conjunct of an _eq: a plain comparison (b), two nodes compared with
\* == (x, y), two tuples of nodes (xs, ys), or the reprs of two parents
Plain(b) == [t |-> "plain", b |-> b, x |-> 0, y |-> 0, xs |-> <<>>, ys |-> <<>>]
NodeEq(x, y) == [t |-> "node", b |-> TRUE, x |-> x, y |-> y, xs |-> <<>>, ys |-> <<>>]
TupleEq(xs, ys) == [t |-> "tuple", b |-> TRUE, x |-> 0, y |-> 0, xs |-> xs, ys |-> ys]
ParentReprEq(x, y) == [t |-> "parent", b |-> TRUE, x |-> x, y |-> y, xs |-> <<>>, ys |-> <<>>]

\* the conjuncts of self._eq(other), left to right
EqSteps(s, o) ==
    CASE s.kind = "Const" -> <<Plain(s.typeName = o.typeName), Plain(s.value = o.value)>>
      [] s.kind \in {"GetColumn", "ExtVar"} -> <<Plain(s.typeName = o.typeName), Plain(s.name = o.name)>>
      [] s.kind = "GetArrayColumn" ->
           <<Plain(s.typeName = o.typeName), Plain(s.name = o.name), NodeEq(s.length, o.length)>>
      [] s.kind = "MathOp" ->
           <<Plain(s.typeName = o.typeName), Plain(s.name = o.name), TupleEq(s.args, o.args)>>
      [] s.kind = "GetItem" ->
           <<NodeEq(s.arg, o.arg), Plain(s.typeName = o.typeName), NodeEq(s.index, o.index)>>
      [] s.kind = "CallMethod" ->
           <<Plain(s.name = o.name), Plain(s.typeName = o.typeName), TupleEq(s.args, o.args)>>
      [] s.kind = "CallMemberMethod" ->
           <<NodeEq(s.this, o.this), Plain(s.name = o.name), Plain(s.typeName = o.typeName),
             TupleEq(s.args, o.args)>>
      [] s.kind = "LocalVariablePlaceholder" ->
           <<Plain(s.typeName = o.typeName), ParentReprEq(s.parent, o.parent), Plain(s.i = o.i)>>
      [] s.kind \in RangeKinds ->
           <<NodeEq(s.ranges[1], o.ranges[1]), NodeEq(s.expr, o.expr), NodeEq(s.idx[1], o.idx[1])>>
             \o (IF s.kind = "Map" THEN <<Plain(s.typeName = o.typeName)>> ELSE <<>>)
      [] s.kind = "Reduce" ->
           <<NodeEq(s.ranges[1], o.ranges[1]), Plain(s.typeName = o.typeName), NodeEq(s.start, o.start),
             NodeEq(s.expr, o.expr), NodeEq(s.idx[1], o.idx[1]), NodeEq(s.idx[2], o.idx[2])>>
      [] s.kind = "Combine" ->
           <<TupleEq(s.ranges, o.ranges), NodeEq(s.expr, o.expr), TupleEq(s.idx, o.idx)>>
      [] s.kind \in SystKinds ->
           <<NodeEq(s.wrapped, o.wrapped), Plain(s.systName = o.systName),
             Plain(s.variations = o.variations)>>
      [] OTHER -> <<>>

\* repr(self._parent): the parent may be None
ParentRepr(h, p) == IF p = 0 THEN Ok(h, <<"None">>) ELSE __repr__(h, p)

\* self.__hash__() == hash(other): the hash of self is taken first
HashesEqual(h, a, b) ==
    Bind(__hash__(h, a), LAMBDA h1, va : Bind(__hash__(h1, b), LAMBDA h2, vb : Ok(h2, va = vb)))

\* the guard of __eq__ before _eq is asked: same class
SameClass(s, o) == s.kind = o.kind

RECURSIVE __eq__(_, _, _)
RECURSIVE RunSteps(_, _)
RECURSIVE TupleCompare(_, _, _)

\* tuple == tuple: the first pair of items that differ decides; items that are
\* the same object are equal without a call; then the lengths
TupleCompare(h, xs, ys) ==
    IF xs = <<>> \/ ys = <<>> THEN Ok(h, Len(xs) = Len(ys))
    ELSE AndThen(__eq__(h, Head(xs), Head(ys)), LAMBDA h1 : TupleCompare(h1, Tail(xs), Tail(ys)))

\* one conjunct
RunStep(h, st) ==
    CASE st.t = "plain" -> Ok(h, st.b)
      [] st.t = "node" -> __eq__(h, st.x, st.y)
      [] st.t = "tuple" -> TupleCompare(h, st.xs, st.ys)
      [] st.t = "parent" ->
           Bind(ParentRepr(h, st.x), LAMBDA h1, vx :
                Bind(ParentRepr(h1, st.y), LAMBDA h2, vy : Ok(h2, vx = vy)))

\* a chain of "and": the first false conjunct ends it
RunSteps(h, steps) ==
    IF steps = <<>> THEN Ok(h, TRUE)
    ELSE AndThen(RunStep(h, Head(steps)), LAMBDA h1 : RunSteps(h1, Tail(steps)))

_eq(h, a, b) == RunSteps(h, EqSteps(h[a], h[b]))

__eq__(h, a, b) ==
    IF a = b THEN Ok(h, TRUE)
    ELSE AndThen(HashesEqual(h, a, b), LAMBDA h1 :
                 IF ~SameClass(h1[a], h1[b]) THEN Ok(h1, FALSE) ELSE _eq(h1, a, b))

(***************************************************************************)
(* clone: a deep copy, every original copied once (memo: id -> copy)       *)
(***************************************************************************)
OkClone(h, memo, v) == [h |-> h, memo |-> memo, v |-> v]

\* the rest F of a clone after the nested clone call r
BindClone(r, F(_, _, _)) == F(r.h, r.memo, r.v)

\* the operands _clone clones, in the order it clones them
CloneChildren(nd) ==
    CASE nd.kind = "GetArrayColumn" -> <<nd.length>>
      [] nd.kind \in {"MathOp", "CallMethod"} -> nd.args
      [] nd.kind = "GetItem" -> <<nd.arg, nd.index>>
      [] nd.kind = "CallMemberMethod" -> <<nd.this>> \o nd.args
      [] nd.kind \in HigherOrderKinds ->
           nd.ranges \o (IF nd.start # 0 THEN <<nd.start>> ELSE <<>>) \o <<nd.expr>> \o nd.idx
      [] nd.kind \in SystKinds -> <<nd.wrapped>>
      [] OTHER -> <<>>

\* self.__class__(...) on the cloned operands cs of CloneChildren(nd)
Rebuild(nd, cs) ==
    CASE nd.kind = "Const" -> Const(nd.typeName, nd.value)
      [] nd.kind = "GetColumn" -> GetColumn(nd.typeName, nd.name)
      [] nd.kind = "ExtVar" -> ExtVar(nd.typeName, nd.name)
      [] nd.kind = "GetArrayColumn" -> GetArrayColumn(nd.typeName, nd.name, cs[1])
      [] nd.kind = "MathOp" -> MathOp(nd.name, cs, nd.typeName)
      [] nd.kind = "GetItem" -> GetItem(cs[1], nd.typeName, cs[2])
      [] nd.kind = "CallMethod" -> CallMethod(nd.name, cs, nd.typeName)
      [] nd.kind = "CallMemberMethod" -> CallMemberMethod(cs[1], nd.name, Tail(cs), nd.typeName)
      [] nd.kind = "LocalVariablePlaceholder" -> LocalVariablePlaceholder(nd.typeName, nd.parent, nd.i)
      [] nd.kind \in RangeKinds -> RangeOp(nd.kind, cs[1], cs[2], cs[3], nd.typeName)
      [] nd.kind = "Reduce" -> Reduce(cs[1], nd.typeName, cs[2], cs[3], cs[4], cs[5])
      [] nd.kind = "Combine" ->
           Combine(SubSeq(cs, 1, Len(nd.ranges)), cs[Len(nd.ranges) + 1],
                   SubSeq(cs, Len(nd.ranges) + 2, Len(cs)))
      [] nd.kind = "ScaleFactorWithSystOp" -> ScaleFactorWithSystOp(cs[1], nd.systName, nd.variations)
      [] nd.kind = "SystModifiedCollectionOp" -> SystModifiedCollectionOp(cs[1], nd.systName, nd.variations)
      [] OTHER -> TupleOp

\* a clone that never finds a node in memo
MemoHitNever(memo, n) == FALSE

\* id(self) in memo
MemoHit(memo, n) == memo[n] # 0

RECURSIVE clone(_, _, _)
RECURSIVE CloneAll(_, _, _)
CloneAll(h, memo, ids) ==
    IF ids = <<>> THEN OkClone(h, memo, <<>>)
    ELSE BindClone(clone(h, memo, Head(ids)), LAMBDA h1, m1, v1 :
                   BindClone(CloneAll(h1, m1, Tail(ids)), LAMBDA h2, m2, vs :
                             OkClone(h2, m2, <<v1>> \o vs)))

\* a copy that keeps the operands of the original
ShallowClone(h, memo, n) == OkClone(Append(h, Rebuild(h[n], CloneChildren(h[n]))), memo, Len(h) + 1)

\* self.__class__(...) on the clones of the operands
_clone(h, memo, n) ==
    BindClone(CloneAll(h, memo, CloneChildren(h[n])), LAMBDA h1, m1, cs :
              OkClone(Append(h1, Rebuild(h[n], cs)), m1, Len(h1) + 1))

clone(h, memo, n) ==
    IF MemoHit(memo, n) THEN OkClone(h, memo, memo[n])
    ELSE BindClone(_clone(h, memo, n), LAMBDA h1, m1, cp : OkClone(h1, [m1 EXCEPT ![n] = cp], cp))

\* memo is None: top-level, construct the dictionary
CloneTop(h, n) == clone(h, [k \in Nodes(h) |-> 0], n)

(***************************************************************************)
(* changeVariation                                                         *)
(***************************************************************************)
\* a changeVariation that accepts every name
NotDeclaredNever(newVariation, variations) == FALSE

\* newVariation not in self.variations
NotDeclared(newVariation, variations) == newVariation \notin Range(variations)

Nominal == <<"N", "o", "m", "i", "n", "a", "l">>
nominal == <<"n", "o", "m", "i", "n", "a", "l">>

\* classes whose instances have the attribute
HasName(nd) == nd.kind \in {"GetColumn", "ExtVar", "GetArrayColumn", "CallMethod", "CallMemberMethod"}
HasValue(nd) == nd.kind = "Const"
HasArgs(nd) == nd.kind \in {"MathOp", "CallMethod", "CallMemberMethod"}

\* translate to the name in C++
CppVariation(newVariation, systName) ==
    Capitalize(IF StartsWith(newVariation, systName) THEN DropPrefix(newVariation, systName)
               ELSE newVariation)

ScaleFactorChangeVariation(h, w, newVariation) ==
    LET self == h[w] IN
    IF CacheBool(self.cache) THEN Raise(h, "RuntimeError")
    ELSE IF NotDeclared(newVariation, self.variations) THEN Raise(h, "ValueError")
    ELSE IF ~HasArgs(h[self.wrapped]) THEN Raise(h, "AttributeError")
    ELSE IF h[self.wrapped].args = <<>> THEN Raise(h, "IndexError")
    ELSE LET args == h[self.wrapped].args
             sel == args[Len(args)]
             nv == CppVariation(newVariation, self.systName)
         IN  IF ~HasName(h[sel]) THEN Raise(h, "AttributeError")
             ELSE IF h[sel].name = Nominal /\ nv # h[sel].name
                  THEN Ok([h EXCEPT ![sel].name = nv], <<>>)
                  ELSE Ok(h, <<>>)

SystModifiedChangeVariation(h, w, newCollection) ==
    LET self == h[w] IN
    IF CacheBool(self.cache) THEN Raise(h, "RuntimeError")
    ELSE IF NotDeclared(newCollection, self.variations) THEN Raise(h, "ValueError")
    ELSE IF ~HasArgs(h[self.wrapped]) THEN Raise(h, "AttributeError")
    ELSE IF h[self.wrapped].args = <<>> THEN Raise(h, "IndexError")
    ELSE LET sel == h[self.wrapped].args[1] IN
         IF ~HasValue(h[sel]) THEN Raise(h, "AttributeError")
         ELSE IF h[sel].value = DQuoted(nominal) /\ newCollection # Strip(h[sel].value, Quote)
              THEN Ok([h EXCEPT ![sel].value = DQuoted(newCollection)], <<>>)
              ELSE Ok(h, <<>>)

changeVariation(h, w, newVariation) ==
    IF h[w].kind = "ScaleFactorWithSystOp" THEN ScaleFactorChangeVariation(h, w, newVariation)
    ELSE SystModifiedChangeVariation(h, w, newVariation)

\* the operand of the wrapped node that changeVariation rewrites, as a string
Selector(h, w) ==
    LET args == h[h[w].wrapped].args IN
    IF h[w].kind = "ScaleFactorWithSystOp" THEN h[args[Len(args)]].name ELSE h[args[1]].value

(***************************************************************************)
(* Rendering with the default resolver cppNoRedir (CppStrRedir):           *)
(* defCache(arg) is arg.get_cppStr(defCache).  Nothing here writes to a    *)
(* node: the result is [v |-> text, err |-> exception].                    *)
(***************************************************************************)
\* a resolver (defCache): _iFun counts the symbols handed out; the rest is the
\* state of a resolver that hoists: the nodes it defines as columns of their
\* own (hoist), whether it records a column name when it defines one
\* (registers), the column names recorded so far (names) and the symbols
\* requested so far (syms)
CppStrRedir(kind, hoist, registers) ==
    [kind |-> kind, _iFun |-> 0, hoist |-> hoist, registers |-> registers, names |-> <<>>, syms |-> <<>>]

cppNoRedir == CppStrRedir("CppStrRedir", {}, FALSE)

\* no analysis module is run
NoModule == [pc |-> "none"]

Text(v) == [v |-> v, err |-> ""]
Fail(err) == [v |-> <<>>, err |-> err]

\* the rest F of a get_cppStr after a nested one
Then(r, F(_)) == IF r.err # "" THEN r ELSE F(r.v)

\* as below, but every operator between single spaces
mathOpFuns_cppStr_OneSpace(op, as) ==
    CASE op = <<"add">> -> <<"( ">> \o JoinWith(as, <<" + ">>) \o <<" )">>
      [] op = <<"and">> -> <<"( ">> \o JoinWith(as, <<" && ">>) \o <<" )">>
      [] op = <<"lt">> -> <<"( ">> \o as[1] \o <<" < ">> \o as[2] \o <<" )">>
      [] op = <<"gt">> -> <<"( ">> \o as[1] \o <<" > ">> \o as[2] \o <<" )">>
      [] op = <<"abs">> -> <<"std::abs( ">> \o as[1] \o <<" )">>
      [] OTHER -> <<"KeyError">>

\* mathOpFuns_cppStr[op] on the rendered arguments
mathOpFuns_cppStr(op, as) ==
    CASE op = <<"add">> -> <<"( ">> \o JoinWith(as, <<" + ">>) \o <<" )">>
      [] op = <<"and">> -> <<"( ">> \o JoinWith(as, <<" && ">>) \o <<" )">>
      [] op = <<"lt">> -> <<"( ">> \o as[1] \o <<" <  ">> \o as[2] \o <<" )">>
      [] op = <<"gt">> -> <<"( ">> \o as[1] \o <<" >  ">> \o as[2] \o <<" )">>
      [] op = <<"abs">> -> <<"std::abs( ">> \o as[1] \o <<" )">>
      [] OTHER -> <<"KeyError">>

RECURSIVE get_cppStr(_, _)
RECURSIVE RenderAll(_, _)
RenderAll(h, ids) ==
    IF ids = <<>> THEN Text(<<>>)
    ELSE Then(get_cppStr(h, Head(ids)), LAMBDA v1 :
              Then(RenderAll(h, Tail(ids)), LAMBDA vs : Text(<<v1>> \o vs)))

get_cppStr(h, n) ==
    LET nd == h[n] IN
    CASE nd.kind = "Const" -> Text(nd.value)
      [] nd.kind \in {"GetColumn", "ExtVar", "GetArrayColumn"} -> Text(nd.name)
      [] nd.kind = "MathOp" ->
           Then(RenderAll(h, nd.args), LAMBDA as : Text(mathOpFuns_cppStr(nd.name, as)))
      [] nd.kind = "GetItem" ->
           Then(RenderAll(h, <<nd.arg, nd.index>>), LAMBDA as :
                Text(as[1] \o <<"[">> \o as[2] \o <<"]">>))
      [] nd.kind = "CallMemberMethod" ->
           Then(RenderAll(h, <<nd.this>> \o nd.args), LAMBDA as :
                Text(as[1] \o <<".">> \o nd.name \o <<"(">> \o JoinWith(Tail(as), <<", ">>) \o <<")">>))
      [] nd.kind = "LocalVariablePlaceholder" ->
           IF nd.i = None THEN Fail("RuntimeError") ELSE Text(<<"i", IntTok(nd.i[1])>>)
      [] nd.kind \in SystKinds -> get_cppStr(h, nd.wrapped)
      \* CallMethod and the higher-order operations ask defCache.shouldDefine,
      \* which CppStrRedir does not have
      [] OTHER -> Fail("AttributeError")

(***************************************************************************)
(* deps(defCache=cppNoRedir, select, includeLocal): cppNoRedir._getColName *)
(* is None for every node.  The model covers the calls that write to no    *)
(* node: includeLocal=True, and the classes that do not look at            *)
(* includeLocal.  select is "all" (the default) or "lvp"                   *)
(* (isinstance(nd, LocalVariablePlaceholder)).  The result is the sequence *)
(* of yielded nodes; a bare yield (None) is 0.                             *)
(***************************************************************************)
Selects(select, nd) == select = "all" \/ (select = "lvp" /\ nd.kind = "LocalVariablePlaceholder")

RECURSIVE deps(_, _, _)
RECURSIVE DepsOfEach(_, _, _, _)
\* for arg in as: if select(arg): yield arg (or a bare yield); yield from arg.deps(...)
DepsOfEach(h, as, select, bare) ==
    IF as = <<>> THEN <<>>
    ELSE (IF Selects(select, h[Head(as)]) THEN <<IF bare THEN 0 ELSE Head(as)>> ELSE <<>>)
         \o deps(h, Head(as), select) \o DepsOfEach(h, Tail(as), select, bare)

deps(h, n, select) ==
    LET nd == h[n] IN
    CASE nd.kind = "GetArrayColumn" -> DepsOfEach(h, <<nd.length>>, select, FALSE)
      [] nd.kind \in {"MathOp", "CallMethod"} -> DepsOfEach(h, nd.args, select, FALSE)
      [] nd.kind = "GetItem" -> DepsOfEach(h, <<nd.arg, nd.index>>, select, FALSE)
      [] nd.kind = "CallMemberMethod" -> DepsOfEach(h, <<nd.this>> \o nd.args, select, FALSE)
      [] nd.kind \in RangeKinds -> DepsOfEach(h, nd.ranges \o <<nd.expr>>, select, FALSE)
      [] nd.kind = "Reduce" -> DepsOfEach(h, nd.ranges \o <<nd.start, nd.expr>>, select, TRUE)
      [] nd.kind = "Combine" -> DepsOfEach(h, nd.ranges \o <<nd.expr>>, select, TRUE)
      [] nd.kind \in SystKinds -> deps(h, nd.wrapped, select)
      [] OTHER -> <<>>

\* collectNodes(expr, select): expr.deps(select=select, includeLocal=True)
collectNodes(h, expr, select) ==
    (IF Selects(select, h[expr]) THEN <<expr>> ELSE <<>>) \o deps(h, expr, select)

(***************************************************************************)
(* The variation wrappers under observation, clone and changeVariation.    *)
(*   heap     : the objects                                                *)
(*   last     : the last call and what it returned or raised               *)
(*   clones   : one entry per top-level clone call (observation only)      *)
(*   rendered : the wrappers whose rendered form has been observed,        *)
(*              directly or inside a rendered expression (observation only)*)
(*   stack    : the factory calls in progress (used by SpecHO)             *)
(***************************************************************************)
\* n and name are recorded for changeVariation and clone, 0 and <<>> otherwise
Call(op, n, name, out) == [op |-> op, n |-> n, name |-> name, out |-> out]

\* sf.get(Nominal) under a ScaleFactorWithSystOp, or coll.at("nominal") under a
\* SystModifiedCollectionOp, inside std::abs( . )
BaseHeap(kind) ==
    << ExtVar(<<"T">>, <<"s">>),
       IF kind = "ScaleFactorWithSystOp" THEN ExtVar(<<"int">>, Nominal)
       ELSE Const(<<"T">>, DQuoted(nominal)),
       CallMemberMethod(1, <<"get">>, <<2>>, <<"float">>),
       IF kind = "ScaleFactorWithSystOp" THEN ScaleFactorWithSystOp(3, <<"m">>, <<>>)
       ELSE SystModifiedCollectionOp(3, <<"j">>, << <<"j", "u">>, <<"j", "d">> >>),
       MathOp(<<"abs">>, <<4>>, <<"float">>) >>

\* the names changeVariation is tried with: the declared ones and others
TriedNames(h, w) == Range(h[w].variations) \cup {<<"b", "a", "d">>, nominal}

Wrappers(h) == {n \in Nodes(h) : h[n].kind \in SystKinds}

Init ==
    /\ heap \in {BaseHeap(k) : k \in SystKinds}
    /\ last = Call("init", 0, <<>>, "")
    /\ clones = <<>>
    /\ mod = NoModule
    /\ rendered = {}
    /\ defCache = cppNoRedir
    /\ stack = <<>>

ReprOp(n) ==
    LET r == __repr__(heap, n) IN
    /\ heap' = r.h
    /\ last' = Call("observe", 0, <<>>, r.err)
    /\ UNCHANGED <<clones, rendered, stack, defCache, mod>>

HashOp(n) ==
    LET r == __hash__(heap, n) IN
    /\ heap' = r.h
    /\ last' = Call("observe", 0, <<>>, r.err)
    /\ UNCHANGED <<clones, rendered, stack, defCache, mod>>

EqOp(a, b) ==
    LET r == __eq__(heap, a, b) IN
    /\ heap' = r.h
    /\ last' = Call("observe", 0, <<>>, r.err)
    /\ UNCHANGED <<clones, rendered, stack, defCache, mod>>

RenderOp(n) ==
    LET r == get_cppStr(heap, n) IN
    /\ last' = Call("observe", 0, <<>>, r.err)
    /\ rendered' = IF r.err = "" THEN rendered \cup (Wrappers(heap) \cap Reach(heap, n)) ELSE rendered
    /\ UNCHANGED <<heap, clones, stack, defCache, mod>>

DepsOp(n) ==
    /\ deps(heap, n, "all") # <<>>
    /\ last' = Call("observe", 0, <<>>, "")
    /\ UNCHANGED <<heap, clones, rendered, stack, defCache, mod>>

ChangeVariationOp(w, name) ==
    LET r == changeVariation(heap, w, name) IN
    /\ heap' = r.h
    /\ last' = Call("changeVariation", w, name, r.err)
    /\ UNCHANGED <<clones, rendered, stack, defCache, mod>>

\* the expressions the caller holds: every node but the object of a method call
Held(h) == Nodes(h) \ {h[n].this : n \in Nodes(h)}

Next ==
    \/ \E n \in Held(heap) : ReprOp(n)
    \/ \E n \in Held(heap) : HashOp(n)
    \/ \E a, b \in Held(heap) : a <= b /\ EqOp(a, b)
    \/ \E n \in Held(heap) : RenderOp(n)
    \/ \E n \in Held(heap) : DepsOp(n)
    \/ \E w \in Wrappers(heap) : \E name \in TriedNames(heap, w) : ChangeVariationOp(w, name)

Spec == Init /\ [][Next]_vars

\* ---------------------------------------------------------------------------
\* Properties of the variation wrappers and of the repr/hash cache (Spec)

\* C1: every node with a cached repr has a cached repr equal to the repr
\* recomputed from its current operands (no operand of a cached node is mutated).
C1_CachedReprIsCurrent ==
    \A n \in Nodes(heap) :
        heap[n].hasCache /\ heap[n].cache.repr # None => heap[n].cache.repr = FreshRepr(heap, n)

\* C2: once the repr or the hash of a wrapper has been computed, changeVariation
\* on it raises RuntimeError for every name and leaves the whole graph, the
\* selector included, as it was.
C2_FrozenRaises ==
    \A w \in Wrappers(heap) :
        heap[w].nRepr > 0 \/ heap[w].nHash > 0 =>
            \A name \in TriedNames(heap, w) :
                /\ changeVariation(heap, w, name).err = "RuntimeError"
                /\ Selector(changeVariation(heap, w, name).h, w) = Selector(heap, w)

C2_Witness ==
    /\ last.op = "changeVariation" /\ last.out = "RuntimeError"
    /\ last.name \in Range(heap[last.n].variations)
    /\ heap[last.n].nHash = 0 /\ heap[last.n].nRepr = 1
    /\ Selector(heap, last.n) \in {Nominal, DQuoted(nominal)}

\* C3: after get_cppStr was called on a wrapper or on an expression holding it,
\* changeVariation on that wrapper raises the RuntimeError.
C3_RenderedRaises ==
    \A w \in rendered : \A name \in TriedNames(heap, w) :
        changeVariation(heap, w, name).err = "RuntimeError"

\* C4: on a wrapper with an empty cache, changeVariation with an undeclared
\* name raises ValueError, mutates nothing and leaves the cache empty.
C4_UnknownNameRaises ==
    \A w \in Wrappers(heap) :
        heap[w].nRepr = 0 /\ heap[w].nHash = 0 =>
            \A name \in TriedNames(heap, w) \ Range(heap[w].variations) :
                /\ changeVariation(heap, w, name).err = "ValueError"
                /\ changeVariation(heap, w, name).h = heap
                /\ heap[w].cache = TupleOpCache

C4_Witness ==
    /\ last.op = "changeVariation" /\ last.out = "ValueError"
    /\ last.name \notin Range(heap[last.n].variations)
    /\ heap[last.n].cache = TupleOpCache

\* what the selector reads when variation v is the active one
Denotes(h, w, v) ==
    IF h[w].kind = "ScaleFactorWithSystOp" THEN CppVariation(v, h[w].systName) ELSE DQuoted(v)

\* C5: a changeVariation(v) call that returned normally left the selector
\* denoting v, whatever was active before.
C5_SelectorDenotesRequested ==
    last.op = "changeVariation" /\ last.out = "" =>
        Selector(heap, last.n) = Denotes(heap, last.n, last.name)

\* C7: _repr and the hash computation run at most once per node, a stored
\* value is returned unchanged by every later call, and no cache field is reset.
C7_ComputedOnce ==
    /\ [](\A n \in Nodes(heap) : heap[n].nRepr <= 1 /\ heap[n].nHash <= 1)
    /\ [][\A n \in Nodes(heap) :
            /\ heap[n].cache.repr # None => heap'[n].cache.repr = heap[n].cache.repr
            /\ heap[n].cache.hash # None => heap'[n].cache.hash = heap[n].cache.hash]_vars

C7_Witness ==
    /\ last.op = "observe"
    /\ \E n \in Nodes(heap) : heap[n].nRepr = 1 /\ heap[n].nHash = 1
    /\ \E w \in Wrappers(heap) : Selector(heap, w) \notin {Nominal, DQuoted(nominal)}

\* ---------------------------------------------------------------------------
\* clone (SpecClone): expressions with a node reachable through two paths

\* abs(w) + w around the wrapper w of BaseHeap: w is an operand twice
SharedWrapperHeap(kind) ==
    SubSeq(BaseHeap(kind), 1, 4) \o << MathOp(<<"add">>, <<4, 4>>, <<"float">>) >>

\* Select.fromRngFun(c, lambda e : e): the placeholder is the index of the
\* body c[i0] and the _i of the Select, the range is an operand of both
SelectHeap ==
    << GetColumn(<<"T">>, <<"c">>),
       LocalVariablePlaceholder(<<"int">>, 4, <<0>>),
       GetItem(1, <<"T">>, 2),
       RangeOp("Select", 1, 3, 2, None) >>

InitClone ==
    /\ heap \in {SharedWrapperHeap(k) : k \in SystKinds} \cup {SelectHeap}
    /\ last = Call("init", 0, <<>>, "")
    /\ clones = <<>>
    /\ mod = NoModule
    /\ rendered = {}
    /\ defCache = cppNoRedir
    /\ stack = <<>>

\* the expressions nothing else holds as an operand
Roots(h) == {n \in Nodes(h) : \A m \in Nodes(h) : n \notin Range(Operands(h[m]))}

\* c = n.clone(): a top-level call, memo=None
CloneOp(n) ==
    /\ Len(clones) < MaxClones
    /\ LET r == CloneTop(heap, n) IN
       /\ heap' = r.h
       /\ clones' = Append(clones, [of |-> n, as |-> r.v, memo |-> r.memo, before |-> Len(heap)])
       /\ last' = Call("clone", n, <<>>, "")
    /\ UNCHANGED <<rendered, stack, defCache, mod>>

NextClone ==
    \/ \E n \in Roots(heap) : CloneOp(n)
    \/ \E n \in Roots(heap) : HashOp(n)
    \/ \E w \in Wrappers(heap) : \E name \in Range(heap[w].variations) : ChangeVariationOp(w, name)

SpecClone == InitClone /\ [][NextClone]_vars

\* C8: the node clone() returns is equal to the original and no node of it has
\* a cached repr or hash, even when the original is frozen; a successful
\* changeVariation on a wrapper of the clone changes neither the repr, the hash
\* nor the rendered text of any node of the original.
C8_CloneIndependent ==
    /\ last.op = "clone" =>
           LET c == clones[Len(clones)] IN
           /\ c.as # c.of /\ __eq__(heap, c.as, c.of).v = TRUE
           /\ \A n \in Reach(heap, c.as) :
                  heap[n].cache = TupleOpCache /\ heap[n].nRepr = 0 /\ heap[n].nHash = 0
    /\ \A k \in DOMAIN clones : \A w \in Wrappers(heap) \cap Reach(heap, clones[k].as) :
           \A name \in Range(heap[w].variations) :
               LET r == changeVariation(heap, w, name) IN
               r.err = "" =>
                   \A n \in Reach(heap, clones[k].of) :
                       /\ __repr__(r.h, n).v = __repr__(heap, n).v
                       /\ __hash__(r.h, n).v = __hash__(heap, n).v
                       /\ get_cppStr(r.h, n) = get_cppStr(heap, n)
                       /\ r.h[n] = heap[n]

C8_Witness ==
    /\ last.op = "changeVariation" /\ last.out = ""
    /\ \E k \in DOMAIN clones :
           /\ last.n \in Reach(heap, clones[k].as)
           /\ heap[clones[k].of].nHash = 1
           /\ \E w \in Wrappers(heap) \cap Reach(heap, clones[k].of) :
                  /\ clones[k].memo[w] = last.n
                  /\ Selector(heap, w) \in {Nominal, DQuoted(nominal)}
                  /\ Selector(heap, last.n) = Denotes(heap, last.n, last.name)

\* C9: one top-level clone call makes exactly one copy of every node reachable
\* from the root, and a node reached through two paths is the same copy on
\* both (the _i of a cloned Select is the placeholder of its cloned body); the
\* copies of two separate calls, and a copy and its original, share no node.
C9_ClonedOnce ==
    /\ \A k \in DOMAIN clones :
           LET c == clones[k]
               orig == Reach(heap, c.of)
               made == (c.before + 1) .. (c.before + Cardinality(orig))
           IN  /\ \A n \in orig : c.memo[n] \in made
               /\ \A n, m \in orig : c.memo[n] = c.memo[m] => n = m
               /\ Reach(heap, c.as) = made
               /\ c.memo[c.of] = c.as
               /\ \A n \in orig :
                      Operands(heap[c.memo[n]]) =
                          [j \in DOMAIN Operands(heap[n]) |-> c.memo[Operands(heap[n])[j]]]
               /\ heap[c.as].kind \in RangeKinds =>
                      heap[heap[c.as].expr].index = heap[c.as].idx[1]
    /\ \A k, l \in DOMAIN clones :
           k # l => Reach(heap, clones[k].as) \cap Reach(heap, clones[l].as) = {}

C9_Witness ==
    /\ last.op = "clone" /\ Len(clones) = 2
    /\ clones[1].of = clones[2].of
    /\ heap[clones[2].as].kind = "Select"
    /\ heap[heap[clones[2].as].expr].index = heap[clones[2].as].idx[1]
    /\ heap[clones[2].as].idx[1] # heap[clones[1].as].idx[1]

\* ---------------------------------------------------------------------------
\* equality of independently constructed expressions (SpecEq)

\* s.get(r, Nominal) under a ScaleFactorWithSystOp, r a Reduce over the column c
ReducedWrapperHeap ==
    << GetColumn(<<"T">>, <<"c">>), Const(<<"float">>, <<"0">>),
       LocalVariablePlaceholder(<<"int">>, 6, <<0>>), LocalVariablePlaceholder(<<"float">>, 6, <<1>>),
       MathOp(<<"add">>, <<4, 3>>, <<"float">>), Reduce(1, <<"float">>, 2, 5, 3, 4),
       ExtVar(<<"T">>, <<"s">>), ExtVar(<<"int">>, Nominal),
       CallMemberMethod(7, <<"get">>, <<6, 8>>, <<"float">>),
       ScaleFactorWithSystOp(9, <<"m">>, <<>>) >>

\* an expression as the sequence of its constructor calls, operands before the
\* node that holds them, the expression itself last
Built ==
    { << Const(<<"int">>, <<"1">>) >>,
      << Const(<<"int">>, <<"2">>) >>,
      << Const(<<"float">>, <<"1">>) >>,
      << GetColumn(<<"int">>, <<"a">>) >>,
      << ExtVar(<<"int">>, <<"a">>) >>,
      << LocalVariablePlaceholder(<<"int">>, 0, <<0>>) >>,
      << LocalVariablePlaceholder(<<"int">>, 0, <<1>>) >>,
      << Const(<<"int">>, <<"1">>), Const(<<"int">>, <<"2">>), MathOp(<<"add">>, <<1, 2>>, <<"int">>) >>,
      << Const(<<"int">>, <<"1">>), Const(<<"int">>, <<"2">>), MathOp(<<"add">>, <<2, 1>>, <<"int">>) >>,
      << Const(<<"int">>, <<"1">>), Const(<<"int">>, <<"2">>), MathOp(<<"lt">>, <<1, 2>>, <<"int">>) >>,
      SelectHeap,
      << GetColumn(<<"T">>, <<"c">>), LocalVariablePlaceholder(<<"int">>, 4, <<0>>),
         GetItem(1, <<"T">>, 2), RangeOp("Sort", 1, 3, 2, None) >>,
      << GetColumn(<<"T">>, <<"c">>), Const(<<"float">>, <<"0">>),
         LocalVariablePlaceholder(<<"int">>, 6, <<0>>), LocalVariablePlaceholder(<<"float">>, 6, <<1>>),
         MathOp(<<"add">>, <<4, 3>>, <<"float">>), Reduce(1, <<"float">>, 2, 5, 3, 4) >>,
      ReducedWrapperHeap }

Moved(n, d) == IF n = 0 THEN 0 ELSE n + d

\* the same constructor call made when d objects exist already
Relocate(nd, d) ==
    [nd EXCEPT !.length = Moved(@, d), !.this = Moved(@, d), !.arg = Moved(@, d),
               !.index = Moved(@, d), !.wrapped = Moved(@, d), !.start = Moved(@, d),
               !.expr = Moved(@, d), !.parent = Moved(@, d),
               !.args = [j \in DOMAIN @ |-> Moved(@[j], d)],
               !.ranges = [j \in DOMAIN @ |-> Moved(@[j], d)],
               !.idx = [j \in DOMAIN @ |-> Moved(@[j], d)]]

\* a, then b, constructed one after the other
Both(a, b) == a \o [j \in DOMAIN b |-> Relocate(b[j], Len(a))]

InitEq ==
    /\ heap \in {Both(a, b) : a, b \in Built}
    /\ last = Call("init", 0, <<>>, "")
    /\ clones = <<>>
    /\ mod = NoModule
    /\ rendered = {}
    /\ defCache = cppNoRedir
    /\ stack = <<>>

NextEq ==
    \/ \E n \in Roots(heap) : ReprOp(n)
    \/ \E n \in Roots(heap) : HashOp(n)
    \/ \E a, b \in Roots(heap) : EqOp(a, b)

SpecEq == InitEq /\ [][NextEq]_vars

\* the two expressions of the pair
Left == CHOOSE n \in Roots(heap) : \A m \in Roots(heap) : n <= m
Right == CHOOSE n \in Roots(heap) : \A m \in Roots(heap) : n >= m

\* a node as constructed, whatever has been cached on it since
AsBuilt(nd) == [nd EXCEPT !.cache = TupleOpCache, !.nRepr = 0, !.nHash = 0]

\* same variant and identical operand values, node by node
SameBuild ==
    /\ Right = 2 * Left
    /\ \A j \in 1 .. Left : AsBuilt(heap[Left + j]) = Relocate(AsBuilt(heap[j]), Left)

\* C6: two independently constructed nodes of the same variant with identical
\* operand values are equal and have equal hashes; two that differ in the
\* variant or in an operand are not equal.
C6_EqualIffSameBuild ==
    /\ __eq__(heap, Left, Right).err = ""
    /\ __eq__(heap, Left, Right).v = SameBuild
    /\ SameBuild => __hash__(heap, Left).err = "" /\ __hash__(heap, Left).v = __hash__(heap, Right).v

\* ---------------------------------------------------------------------------
\* the fromRngFun factories, nested (SpecHO)
\*   stack : one frame per factory call whose function has not returned yet,
\*           above a first frame for the caller of the outermost factory:
\*           idx   the placeholders the call made,
\*           refs  what the function was given (rng._base[idx.result], prevRes),
\*           fixed what the factory itself puts in the body (Combine: areDiff),
\*           made  the higher-order nodes completed inside the function

SizeType == <<"std::size_t">>

Frame(kind, idx, refs, fixed) == [kind |-> kind, idx |-> idx, refs |-> refs, fixed |-> fixed, made |-> <<>>]

\* the range c (its op) and the start value of a Reduce
InitHO ==
    /\ heap = << GetColumn(<<"T">>, <<"c">>), Const(<<"float">>, <<"0">>) >>
    /\ stack = << Frame("caller", <<>>, <<>>, <<>>) >>
    /\ last = Call("init", 0, <<>>, "")
    /\ clones = <<>>
    /\ mod = NoModule
    /\ rendered = {}
    /\ defCache = cppNoRedir

\* factory calls made so far
Begun == Cardinality({n \in Nodes(heap) : heap[n].kind \in HigherOrderKinds}) + Len(stack) - 1

\* fromRngFun up to the call of the function: the placeholders (without a
\* final index) and the element(s) rng._base[idx.result]
BeginFromRngFun(kind) ==
    /\ Len(stack) <= MaxDepth
    /\ Begun < MaxBuilt
    /\ LET n == Len(heap)
           made == CASE kind = "Reduce" ->
                          << LocalVariablePlaceholder(SizeType, 0, None),
                             LocalVariablePlaceholder(<<"float">>, 0, <<-1>>),
                             GetItem(1, <<"T">>, n + 1) >>
                     [] kind = "Combine" ->
                          << LocalVariablePlaceholder(SizeType, 0, <<-1>>),
                             LocalVariablePlaceholder(SizeType, 0, <<-2>>),
                             MathOp(<<"lt">>, <<n + 1, n + 2>>, <<"bool">>),
                             GetItem(1, <<"T">>, n + 1), GetItem(1, <<"T">>, n + 2) >>
                     [] OTHER ->
                          << LocalVariablePlaceholder(SizeType, 0, None), GetItem(1, <<"T">>, n + 1) >>
           fr == CASE kind = "Reduce" -> Frame(kind, <<n + 1, n + 2>>, <<n + 2, n + 3>>, <<>>)
                   [] kind = "Combine" -> Frame(kind, <<n + 1, n + 2>>, <<n + 4, n + 5>>, <<n + 3>>)
                   [] OTHER -> Frame(kind, <<n + 1>>, <<n + 2>>, <<>>)
       IN  /\ heap' = heap \o made
           /\ stack' = Append(stack, fr)
           /\ last' = Call("call", 0, <<>>, "")
    /\ UNCHANGED <<clones, rendered, defCache, mod>>

RECURSIVE SortedSeq(_)
SortedSeq(S) ==
    IF S = {} THEN <<>>
    ELSE LET m == CHOOSE x \in S : \A y \in S : x <= y IN <<m>> \o SortedSeq(S \ {m})

Max(S) == CHOOSE x \in S : \A y \in S : y <= x

\* what the functions being called may use: their own arguments and those of
\* the enclosing functions (closures)
Visible == UNION {Range(stack[k].refs) : k \in DOMAIN stack}

\* nd.i if nd.i is not None else -1
IndexOrMinusOne(nd) == IF nd.i = None THEN -1 ELSE nd.i[1]

\* the function returns an expression over `used` and the nodes it completed;
\* the factory scans it for placeholders, numbers its own and builds the node
EndFromRngFun(used) ==
    /\ Len(stack) > 1
    /\ LET fr == stack[Len(stack)]
           args == fr.fixed \o SortedSeq(used) \o fr.made
           h1 == Append(heap, IF args = <<>> THEN Const(<<"bool">>, <<"true">>)
                              ELSE MathOp(<<"and">>, args, <<"bool">>))
           body == Len(h1)
           found == collectNodes(h1, body, "lvp")
       IN  IF 0 \in Range(found)
           THEN /\ heap' = h1
                /\ stack' = <<stack[1]>>
                /\ last' = Call("fromRngFun", 0, <<>>, "AttributeError")
           ELSE LET maxLVIdx == Max({-1} \cup {IndexOrMinusOne(h1[p]) : p \in Range(found)})
                    nd == CASE fr.kind = "Reduce" -> Reduce(1, <<"float">>, 2, body, fr.idx[1], fr.idx[2])
                            [] fr.kind = "Combine" -> Combine(<<1, 1>>, body, fr.idx)
                            [] OTHER -> RangeOp(fr.kind, 1, body, fr.idx[1], IF fr.kind = "Map" THEN <<"bool">> ELSE None)
                    res == body + 1
                    h2 == Append(h1, nd)
                    up == Len(stack) - 1
                IN  /\ heap' = [p \in DOMAIN h2 |->
                                  IF \E j \in DOMAIN fr.idx : fr.idx[j] = p
                                  THEN [h2[p] EXCEPT !.parent = res,
                                                     !.i = <<maxLVIdx + (CHOOSE j \in DOMAIN fr.idx : fr.idx[j] = p)>>]
                                  ELSE h2[p]]
                    /\ stack' = [SubSeq(stack, 1, up) EXCEPT ![up].made = Append(@, res)]
                    /\ last' = Call("fromRngFun", res, <<>>, "")
    /\ UNCHANGED <<clones, rendered, defCache, mod>>

\* LocalVariablePlaceholder.name
LocalVariablePlaceholder_name(nd) ==
    IF nd.i = None THEN Fail("RuntimeError") ELSE Text(<<"i", IntTok(nd.i[1])>>)

\* p.name (and p.get_cppStr(), which returns it) for a placeholder p, asked
\* by a function that is being called or by the caller
nameOp(p) ==
    /\ heap[p].kind = "LocalVariablePlaceholder"
    /\ last' = Call("name", p, LocalVariablePlaceholder_name(heap[p]).v, LocalVariablePlaceholder_name(heap[p]).err)
    /\ UNCHANGED <<heap, stack, clones, rendered, defCache, mod>>

NextHO ==
    \/ \E kind \in HigherOrderKinds : BeginFromRngFun(kind)
    \/ \E used \in SUBSET Visible : EndFromRngFun(used)
    \/ \E p \in Nodes(heap) : nameOp(p)

SpecHO == InitHO /\ [][NextHO]_vars

\* the placeholder indices a completed higher-order node owns
OwnIndices(n) == {heap[heap[n].idx[j]].i[1] : j \in DOMAIN heap[n].idx}

\* the higher-order nodes nested in the body of n
NestedIn(n) == {m \in Reach(heap, heap[n].expr) : heap[m].kind \in HigherOrderKinds}

\* C10: once the factories have returned, the placeholder indices of a
\* higher-order node differ from those of every higher-order node nested in
\* its body, and its own are non-negative, consecutive in position order and
\* start one above the largest index of the other placeholders in its body.
C10_NestedIndicesDiffer ==
    \A n \in Nodes(heap) :
        heap[n].kind \in HigherOrderKinds =>
            /\ \A m \in NestedIn(n) : OwnIndices(n) \cap OwnIndices(m) = {}
            /\ \A j \in DOMAIN heap[n].idx :
                   /\ heap[heap[n].idx[j]].i[1] >= 0
                   /\ heap[heap[n].idx[j]].i[1] = heap[heap[n].idx[1]].i[1] + j - 1
            /\ heap[heap[n].idx[1]].i[1] =
                   1 + Max({-1} \cup {IndexOrMinusOne(heap[p]) :
                                         p \in {q \in Reach(heap, heap[n].expr) :
                                                   /\ heap[q].kind = "LocalVariablePlaceholder"
                                                   /\ q \notin Range(heap[n].idx)}})

\* ---------------------------------------------------------------------------
\* Combine.fromRngFun on range proxies (SpecCombine)
\*   a range proxy is the pair of the op of its index list (_idxs.op) and the
\*   op of the collection it ranges over (_base); last records the ranges and
\*   the predicate node of the call

MaxCombines == 2

\* jets, muons, and a selection of jets
RangeProxies == { [idxs |-> 1, base |-> 1], [idxs |-> 2, base |-> 2], [idxs |-> 3, base |-> 1] }

InitCombine ==
    /\ heap = << GetColumn(<<"J">>, <<"jets">>), GetColumn(<<"M">>, <<"muons">>),
                 CallMethod(<<"sel">>, <<1>>, <<"I">>) >>
    /\ last = Call("init", 0, <<>>, "")
    /\ clones = <<>>
    /\ mod = NoModule
    /\ rendered = {}
    /\ defCache = cppNoRedir
    /\ stack = <<>>

\* treefunctions.AND(*args)
AND(args) == MathOp(<<"and">>, args, <<"bool">>)

\* itertools.combinations(range(n), 2), in its order
Combinations2(n) ==
    LET P == {<<a, b>> : a \in 1..n, b \in 1..n}
        Pairs == {p \in P : p[1] < p[2]}
        Before(p, q) == p[1] < q[1] \/ (p[1] = q[1] /\ p[2] < q[2])
        Rank(p) == 1 + Cardinality({q \in Pairs : Before(q, p)})
    IN  [k \in 1..Cardinality(Pairs) |-> CHOOSE p \in Pairs : Rank(p) = k]

\* every pair of positions, whatever the ranges
EveryPair(ranges) == Combinations2(Len(ranges))

\* the pairs of positions kept by `if ra._base == rb._base`
SameBasePairs(ranges) ==
    SelectSeq(Combinations2(Len(ranges)), LAMBDA p : ranges[p[1]].base = ranges[p[2]].base)

\* the predicate the caller's function returns, over the elements es
CandPred(predKind, es) ==
    IF predKind = "call" THEN CallMethod(<<"f">>, es, <<"bool">>)
    ELSE MathOp(<<"gt">>, <<es[1], es[Len(es)]>>, <<"bool">>)

PredKinds == {"call", "gt"}

Combine_fromRngFun(num, given, predKind) ==
    /\ Cardinality({n \in Nodes(heap) : heap[n].kind = "Combine"}) < MaxCombines
    /\ LET ranges == IF Len(given) > 1 THEN given ELSE [j \in 1..num |-> given[1]]
           n == Len(heap)
           \* zip(idx, ranges) stops at the shorter of the two
           z == IF num < Len(ranges) THEN num ELSE Len(ranges)
           pairs == SameBasePairs(SubSeq(ranges, 1, z))
           m == Len(pairs)
           idx == [j \in 1..num |-> n + j]
           areDiff == n + num + m + 1
           elems == [j \in 1..z |-> areDiff + j]
           candPred == areDiff + z + 1
           candPredExpr == IF m > 0 THEN candPred + 1 ELSE candPred
           h1 == heap
                 \o [j \in 1..num |-> LocalVariablePlaceholder(SizeType, 0, <<0 - j>>)]
                 \o [k \in 1..m |-> MathOp(<<"lt">>, <<idx[pairs[k][1]], idx[pairs[k][2]]>>, <<"bool">>)]
                 \o << AND([k \in 1..m |-> n + num + k]) >>
                 \o [j \in 1..z |-> GetItem(ranges[j].base, <<"T">>, idx[j])]
                 \o << CandPred(predKind, elems) >>
                 \o (IF m > 0 THEN << AND(<<areDiff, candPred>>) >> ELSE <<>>)
           found == collectNodes(h1, candPredExpr, "lvp")
           maxLVIdx == Max({-1} \cup {IndexOrMinusOne(h1[p]) : p \in Range(found)})
           res == Len(h1) + 1
           h2 == Append(h1, Combine([j \in DOMAIN ranges |-> ranges[j].idxs], candPredExpr, idx))
       IN  /\ heap' = [p \in DOMAIN h2 |->
                          IF p \in Range(idx)
                          THEN [h2[p] EXCEPT !.parent = res, !.i = <<maxLVIdx + (p - n)>>]
                          ELSE h2[p]]
           /\ last' = [op |-> "Combine.fromRngFun", n |-> res, name |-> <<>>, out |-> "",
                       ranges |-> ranges, pred |-> candPred, num |-> num]
    /\ UNCHANGED <<clones, rendered, stack, defCache, mod>>

NextCombine ==
    \E num \in 2..3, predKind \in PredKinds :
        \E given \in [1..1 -> RangeProxies] \cup [1..num -> RangeProxies] :
            Combine_fromRngFun(num, given, predKind)

SpecCombine == InitCombine /\ [][NextCombine]_vars

\* as SpecCombine, with any number of ranges for any num
NextCombineAny ==
    \E num \in 1..3, predKind \in PredKinds :
        \E given \in [1..1 -> RangeProxies] \cup [1..2 -> RangeProxies] :
            Combine_fromRngFun(num, given, predKind)

SpecCombineAny == InitCombine /\ [][NextCombineAny]_vars

\* the conjuncts of a nest of "and" nodes
RECURSIVE Conjuncts(_, _)
Conjuncts(h, n) ==
    IF h[n].kind = "MathOp" /\ h[n].name = <<"and">>
    THEN UNION {Conjuncts(h, h[n].args[k]) : k \in DOMAIN h[n].args}
    ELSE {n}

\* whether the predicate n accepts the indices ix (placeholder -> value) when
\* the caller's predicate has the value p
RECURSIVE Accepts(_, _, _, _)
Accepts(h, n, ix, p) ==
    CASE h[n].kind = "MathOp" /\ h[n].name = <<"and">> ->
             \A k \in DOMAIN h[n].args : Accepts(h, h[n].args[k], ix, p)
      [] h[n].kind = "MathOp" /\ h[n].name = <<"lt">>
           /\ \A k \in DOMAIN h[n].args : h[h[n].args[k]].kind = "LocalVariablePlaceholder" ->
             ix[h[n].args[1]] < ix[h[n].args[2]]
      [] OTHER -> p

\* the position pairs a < b on the same collection
SharedPositions(ranges) ==
    {p \in (DOMAIN ranges) \X (DOMAIN ranges) : p[1] < p[2] /\ ranges[p[1]].base = ranges[p[2]].base}

Spell1(t) ==
    CASE t = "const " -> <<"c", "o", "n", "s", "t", " ">>
      [] t = "& " -> <<"&", " ">>
      [] t = ", " -> <<",", " ">>
      [] t = "ROOT::VecOps::RVec<" -> <<"R", "O", "O", "T", ":", ":", "V", "e", "c", "O", "p", "s", ":", ":", "R", "V", "e", "c", "<">>
      [] t = "std::size_t" -> <<"s", "t", "d", ":", ":", "s", "i", "z", "e", "_", "t">>
      [] t = "float" -> <<"f", "l", "o", "a", "t">>
      [] t = "int" -> <<"i", "n", "t">>
      [] t = "bool" -> <<"b", "o", "o", "l">>
      [] t = "None" -> <<"N", "o", "n", "e">>
      [] t = "myArg" -> <<"m", "y", "A", "r", "g">>
      [] t = "-1" -> <<"-", "1">>
      [] t = "-2" -> <<"-", "2">>
      [] t = "-3" -> <<"-", "3">>
      [] t = "1.0" -> <<"1", ".", "0">>
      [] t = "0.0" -> <<"0", ".", "0">>
      [] t = "30.0" -> <<"3", "0", ".", "0">>
      [] t = "rdfhelpers::select(" -> <<"r", "d", "f", "h", "e", "l", "p", "e", "r", "s", ":", ":", "s", "e", "l", "e", "c", "t", "(">>
      [] t = "rdfhelpers::sort(" -> <<"r", "d", "f", "h", "e", "l", "p", "e", "r", "s", ":", ":", "s", "o", "r", "t", "(">>
      [] t = "rdfhelpers::map<" -> <<"r", "d", "f", "h", "e", "l", "p", "e", "r", "s", ":", ":", "m", "a", "p", "<">>
      [] t = ">(" -> <<">", "(">>
      [] t = "rdfhelpers::next(" -> <<"r", "d", "f", "h", "e", "l", "p", "e", "r", "s", ":", ":", "n", "e", "x", "t", "(">>
      [] t = "rdfhelpers::reduce(" -> <<"r", "d", "f", "h", "e", "l", "p", "e", "r", "s", ":", ":", "r", "e", "d", "u", "c", "e", "(">>
      [] t = "rdfhelpers::combine" -> <<"r", "d", "f", "h", "e", "l", "p", "e", "r", "s", ":", ":", "c", "o", "m", "b", "i", "n", "e">>
      [] t = "(\n     [" -> <<"(", "\n", " ", " ", " ", " ", " ", "[">>
      [] t = ",\n    [" -> <<",", "\n", " ", " ", " ", " ", "[">>
      [] t = ",\n     [" -> <<",", "\n", " ", " ", " ", " ", " ", "[">>
      [] t = "] ( " -> <<"]", " ", "(", " ">>
      [] t = " ) { return " -> <<" ", ")", " ", "{", " ", "r", "e", "t", "u", "r", "n", " ">>
      [] t = "; })" -> <<";", " ", "}", ")">>
      [] t = "; }, -1)" -> <<";", " ", "}", ",", " ", "-", "1", ")">>
      [] t = "; },\n     " -> <<";", " ", "}", ",", "\n", " ", " ", " ", " ", " ">>
      [] t = "( " -> <<"(", " ">>
      [] t = " )" -> <<" ", ")">>
      [] t = " >  " -> <<" ", ">", " ", " ">>
      [] t = " <  " -> <<" ", "<", " ", " ">>
      [] t = " + " -> <<" ", "+", " ">>
      [] t = " && " -> <<" ", "&", "&", " ">>
      [] t = "std::abs( " -> <<"s", "t", "d", ":", ":", "a", "b", "s", "(", " ">>
      [] t = "myFun" -> <<"m", "y", "F", "u", "n">>
      [] t = "myCol" -> <<"m", "y", "C", "o", "l">>
      [] OTHER -> <<t>>

\* the characters of s[lo..hi], by halves
RECURSIVE SpellRange(_, _, _)
SpellRange(s, lo, hi) ==
    IF lo > hi THEN <<>>
    ELSE IF lo = hi THEN Spell1(s[lo])
    ELSE SpellRange(s, lo, (lo + hi) \div 2) \o SpellRange(s, (lo + hi) \div 2 + 1, hi)

Spell(s) == SpellRange(s, 1, Len(s))

\* the characters in the order of their code points
CharOrder ==
    <<"\n", " ", "&", "(", ")", "+", ",", "-", ".", "0", "1", "2", "3", "4", "5", "6", "7", "8", "9", ":", ";", "<", ">", "A", "B", "C", "D", "E", "F", "G", "H", "I", "J", "K", "L", "M", "N", "O", "P", "Q", "R", "S", "T", "U", "V", "W", "X", "Y", "Z", "[", "]", "_", "a", "b", "c", "d", "e", "f", "g", "h", "i", "j", "k", "l", "m", "n", "o", "p", "q", "r", "s", "t", "u", "v", "w", "x", "y", "z", "{", "}">>

Ord(c) == IndexIn(c, CharOrder)

\* a < b for two str: the first character that differs decides, a proper
\* prefix is smaller
StrLess(a, b) ==
    LET x == Spell(a)
        y == Spell(b)
        D == {k \in 1..(IF Len(x) < Len(y) THEN Len(x) ELSE Len(y)) : x[k] # y[k]}
    IN  IF D = {} THEN Len(x) < Len(y)
        ELSE Ord(x[CHOOSE k \in D : \A j \in D : k <= j]) < Ord(y[CHOOSE k \in D : \A j \in D : k <= j])

\* the positions at which sub occurs in the characters s
Occurrences(s, sub) ==
    {k \in 1..(Len(s) - Len(sub) + 1) : SubSeq(s, k, k + Len(sub) - 1) = sub}

\* sub in s
Contains(s, sub) == sub = <<>> \/ Occurrences(Spell(s), Spell(sub)) # {}

\* s.replace(old, new) on characters, from position k on: the occurrences of
\* old from left to right, without overlap
RECURSIVE ReplaceFrom(_, _, _, _)
ReplaceFrom(s, old, new, k) ==
    LET occ == {j \in Occurrences(s, old) : j >= k}
    IN  IF occ = {} \/ old = <<>> THEN SubSeq(s, k, Len(s))
        ELSE LET j == CHOOSE x \in occ : \A y \in occ : x <= y
             IN  SubSeq(s, k, j - 1) \o new \o ReplaceFrom(s, old, new, j + Len(old))

Replace(s, old, new) == ReplaceFrom(Spell(s), Spell(old), Spell(new), 1)

(***************************************************************************)
(* Rendering with a resolver                                               *)
(*   defCache is threaded through the calls: a call returns the resolver   *)
(*   as it leaves it (dc), the value it returns (v) and the exception it   *)
(*   raises (err, "" for none).  dc.hashed collects the nodes the call put *)
(*   into a set, which hashes them.                                        *)
(***************************************************************************)
Res(dc, v) == [dc |-> dc, v |-> v, err |-> ""]
Err(dc, e) == [dc |-> dc, v |-> <<>>, err |-> e]

\* the rest F of a function after a call r: an exception of the call ends it
\* (r is evaluated once, as the one element of a set)
Do(r, F(_, _)) == CHOOSE y \in {IF x.err # "" THEN x ELSE F(x.dc, x.v) : x \in {r}} : TRUE

\* a resolver that hoists the nodes in hoist
Hoisting(hoist, registers) == CppStrRedir("hoisting", hoist, registers)

\* a resolver that hoists the nodes in hoist and whose definition of a node
\* produces no column name: its call returns the empty string
Nameless(hoist) == CppStrRedir("nameless", hoist, FALSE)

\* a call with the resolver defCache: hashed and asked start empty; rev is
\* the order in which sets iterate in this run.  called lists the hoisted
\* nodes that went through defCache(op), warned the ones _collectDeps logged
\* a warning for.
\* twice lists the dependencies _convertFunArgs found "there twice".
Ctx(dc, rev) ==
    dc @@ [hashed |-> {}, asked |-> <<>>, rev |-> rev, called |-> <<>>, warned |-> <<>>, twice |-> <<>>]

\* the resolver a call leaves behind
Resolver(dc) == [f \in DOMAIN cppNoRedir |-> dc[f]]

\* CppStrRedir has no shouldDefine
HasShouldDefine(dc) == dc.kind # "CppStrRedir"

shouldDefine(dc, n) == n \in dc.hoist

\* the column name a resolver that hoists has for n
HoistingColName(dc, n) == IF n \in DOMAIN dc.names THEN dc.names[n] ELSE None

_getColName(dc, n) == IF dc.kind = "CppStrRedir" THEN None ELSE HoistingColName(dc, n)

\* the symbol requests with the same declaration
SameDecl(dc, decl, resultType, args) ==
    {k \in DOMAIN dc.syms : /\ dc.syms[k].decl = decl
                            /\ dc.syms[k].resultType = resultType
                            /\ dc.syms[k].args = args}

\* symbol() of a resolver that hoists, asked by node n: one name for one
\* declaration
HoistingSymbol(dc, decl, resultType, args, n) ==
    IF SameDecl(dc, decl, resultType, args) # {}
    THEN Res([dc EXCEPT !.asked = Append(@, n)],
             dc.syms[CHOOSE k \in SameDecl(dc, decl, resultType, args) : TRUE].name)
    ELSE Res([dc EXCEPT !._iFun = @ + 1, !.asked = Append(@, n),
                        !.syms = Append(@, [decl |-> decl, resultType |-> resultType, args |-> args,
                                            name |-> <<"myFun", IntTok(dc._iFun)>>])],
             <<"myFun", IntTok(dc._iFun)>>)

\* defCache.symbol(decl, resultType=..., args=...) of the default resolver
\* fails: CppStrRedir.symbol takes decl only.
symbol(dc, decl, resultType, args, n) ==
    IF dc.kind = "CppStrRedir" THEN Err(dc, "TypeError") ELSE HoistingSymbol(dc, decl, resultType, args, n)

\* the classes whose deps() yields nothing once the resolver has a column
\* name for the node
ChecksColName(nd) == nd.kind \in {"MathOp", "CallMethod", "CallMemberMethod"} \cup HigherOrderKinds

\* the arguments deps() goes through, in its order
DepArgs(nd) ==
    CASE nd.kind = "GetArrayColumn" -> <<nd.length>>
      [] nd.kind \in {"MathOp", "CallMethod"} -> nd.args
      [] nd.kind = "GetItem" -> <<nd.arg, nd.index>>
      [] nd.kind = "CallMemberMethod" -> <<nd.this>> \o nd.args
      [] nd.kind \in RangeKinds \cup {"Combine"} -> nd.ranges \o <<nd.expr>>
      [] nd.kind = "Reduce" -> nd.ranges \o <<nd.start, nd.expr>>
      [] OTHER -> <<>>

\* the arguments of a Reduce or Combine that are kept as proxies (its ranges):
\* select, which looks for operations, accepts none of them
ProxyArgs(nd) == IF nd.kind \in {"Reduce", "Combine"} THEN Len(nd.ranges) ELSE 0

\* n.deps(defCache, select, includeLocal=False) where S is the set of nodes
\* select accepts; a bare yield (None) is 0.  The first px arguments are
\* proxies.
RECURSIVE depsSel(_, _, _, _)
RECURSIVE depsArgs(_, _, _, _, _, _, _)
depsArgs(h, dc, as, S, bare, px, own) ==
    IF as = <<>> THEN <<>>
    ELSE (IF Head(as) \in S /\ px = 0 THEN <<IF bare THEN 0 ELSE Head(as)>> ELSE <<>>)
         \o SelectSeq(depsSel(h, dc, Head(as), S), LAMBDA d : d \notin own)
         \o depsArgs(h, dc, Tail(as), S, bare, IF px > 0 THEN px - 1 ELSE 0, own)

depsSel(h, dc, n, S) ==
    IF h[n].kind \in SystKinds THEN depsSel(h, dc, h[n].wrapped, S)
    ELSE IF ChecksColName(h[n]) /\ _getColName(dc, n) # None THEN <<>>
    ELSE depsArgs(h, dc, DepArgs(h[n]), S, h[n].kind \in {"Reduce", "Combine"}, ProxyArgs(h[n]),
                  IF h[n].kind \in HigherOrderKinds THEN Range(h[n].idx) ELSE {})

\* the nodes the second pass of _collectDeps selects
FreeSelect(h, dc, ownLocal) ==
    {n \in Nodes(h) : \/ h[n].kind \in {"GetColumn", "GetArrayColumn"}
                      \/ shouldDefine(dc, n)
                      \/ (h[n].kind = "LocalVariablePlaceholder" /\ n \notin ownLocal)}

\* the second pass: set(chain.from_iterable(expr.deps(...) for expr in exprs))
FreeOfDeps(h, dc, exprs, ownLocal) ==
    UNION {Range(depsSel(h, dc, exprs[k], FreeSelect(h, dc, ownLocal))) : k \in DOMAIN exprs}

\* iterating over a set: one of the orders the hashes may give
IterOrder(S, rev) ==
    IF rev THEN [k \in 1..Cardinality(S) |-> SortedSeq(S)[Cardinality(S) + 1 - k]] ELSE SortedSeq(S)

\* ld.result._typeName of a node that is defined as a column
ResultTypeName(nd) ==
    CASE nd.kind \in {"Select", "Sort"} -> <<"ROOT::VecOps::RVec<">> \o SizeType \o <<">">>
      [] nd.kind = "Map" -> <<"ROOT::VecOps::RVec<">> \o nd.typeName \o <<">">>
      [] nd.kind = "Next" -> SizeType
      [] nd.kind = "Combine" ->
             <<"ROOT::VecOps::RVec<", "rdfhelpers::Combination<", IntTok(Len(nd.ranges)), ">", ">">>
      [] OTHER -> nd.typeName

\* LocalVariablePlaceholder.name, for a placeholder with an index
LocalName(nd) == <<"i", IntTok(nd.i[1])>>

\* sorted(capDeclCall, key=(lambda elm : elm[1])): stable
RECURSIVE SortByDecl(_, _)
SortByDecl(todo, done) ==
    IF todo = <<>> THEN done
    ELSE LET e == Head(todo)
             at == Cardinality({k \in DOMAIN done : ~ StrLess(e.decl, done[k].decl)})
         IN  SortByDecl(Tail(todo), SubSeq(done, 1, at) \o <<e>> \o SubSeq(done, at + 1, Len(done)))

\* the loop of _convertFunArgs over the dependencies ds, in their order
RECURSIVE ConvertFrom(_, _, _, _)
ConvertFrom(h, dc, ds, acc) ==
    IF ds = <<>> THEN Res(dc, acc)
    ELSE LET ld == Head(ds) IN
         IF ld # 0 /\ h[ld].kind = "GetArrayColumn"
         THEN ConvertFrom(h, dc, Tail(ds), Append(acc,
                  [cap |-> <<"&">> \o h[ld].name,
                   decl |-> <<"const ", "ROOT::VecOps::RVec<">> \o h[ld].typeName \o <<">", "& ">> \o h[ld].name,
                   call |-> h[ld].name]))
         ELSE IF ld # 0 /\ h[ld].kind = "GetColumn"
         THEN ConvertFrom(h, dc, Tail(ds), Append(acc,
                  [cap |-> <<"&">> \o h[ld].name,
                   decl |-> <<"const ">> \o h[ld].typeName \o <<"& ">> \o h[ld].name,
                   call |-> h[ld].name]))
         ELSE IF ld # 0 /\ h[ld].kind = "LocalVariablePlaceholder"
         THEN IF h[ld].i = None THEN Err(dc, "RuntimeError")
              ELSE ConvertFrom(h, dc, Tail(ds), Append(acc,
                       [cap |-> LocalName(h[ld]),
                        decl |-> h[ld].typeName \o <<" ">> \o LocalName(h[ld]),
                        call |-> LocalName(h[ld])]))
         ELSE IF ~ HasShouldDefine(dc) THEN Err(dc, "AttributeError")
         ELSE IF ld # 0 /\ shouldDefine(dc, ld)
         THEN LET nm == _getColName(dc, ld)
                  shown == IF nm = None THEN <<"None">> ELSE nm
              IN  IF \E k \in DOMAIN acc : Spell(acc[k].cap) = Spell(<<"&">> \o shown)
                  THEN ConvertFrom(h, [dc EXCEPT !.twice = Append(@, ld)], Tail(ds), acc)
                  ELSE ConvertFrom(h, dc, Tail(ds), Append(acc,
                           [cap |-> <<"&">> \o shown,
                            decl |-> <<"const ">> \o ResultTypeName(h[ld]) \o <<"& ">> \o shown,
                            call |-> nm]))
         ELSE Err(dc, "AssertionError")

\* zip(*rows): nothing at all for no rows, else the three columns
Zip3(rows) ==
    IF rows = <<>> THEN <<>>
    ELSE << [k \in DOMAIN rows |-> rows[k].cap],
            [k \in DOMAIN rows |-> rows[k].decl],
            [k \in DOMAIN rows |-> rows[k].call] >>

_convertFunArgs(h, dc, ds) ==
    Do(ConvertFrom(h, dc, ds, <<>>), LAMBDA dc1, rows : Res(dc1, Zip3(SortByDecl(rows, <<>>))))

\* captures, paramDecl, paramCall = ...: the unpacking of what it returns
Unpack3(r) == IF r.err = "" /\ r.v = <<>> THEN Err(r.dc, "ValueError") ELSE r

\* sorted(list(enumerate(argNames)), key=(lambda elm : len(elm[1])), reverse=True):
\* longest first, equal lengths in their order
RECURSIVE ByLengthDesc(_, _)
ByLengthDesc(argNames, left) ==
    IF left = {} THEN <<>>
    ELSE LET k == CHOOSE x \in left : \A y \in left :
                      \/ Len(Spell(argNames[x])) > Len(Spell(argNames[y]))
                      \/ (Len(Spell(argNames[x])) = Len(Spell(argNames[y])) /\ x <= y)
         IN  <<k>> \o ByLengthDesc(argNames, left \ {k})

\* the loop of _normFunArgs on the characters of expr and args
RECURSIVE NormFrom(_, _, _, _)
NormFrom(expr, args, argNames, todo) ==
    IF todo = <<>> THEN [v |-> <<expr, args>>, err |-> ""]
    ELSE LET argN == Spell(argNames[Head(todo)])
             newName == Spell(<<"myArg", IntTok(Head(todo) - 1)>>)
         IN  IF Cardinality({j \in DOMAIN args : Occurrences(args[j], argN) # {}}) # 1
             THEN [v |-> <<>>, err |-> "AssertionError"]
             ELSE NormFrom(ReplaceFrom(expr, argN, newName, 1),
                           [j \in DOMAIN args |-> ReplaceFrom(args[j], argN, newName, 1)],
                           argNames, Tail(todo))

\* len(None) in the sort key is a TypeError
_normFunArgs(expr, args, argNames) ==
    IF \E k \in DOMAIN argNames : argNames[k] = None THEN [v |-> <<>>, err |-> "TypeError"]
    ELSE NormFrom(Spell(expr), [j \in DOMAIN args |-> Spell(args[j])], argNames,
                  ByLengthDesc(argNames, DOMAIN argNames))

\* ", ".join(parts): a part that is None is a TypeError
JoinStrs(dc, parts) ==
    IF \E k \in DOMAIN parts : parts[k] = None THEN Err(dc, "TypeError")
    ELSE Res(dc, JoinWith(parts, <<", ">>))

RECURSIVE get_cppStrIn(_, _, _)
RECURSIVE __call__(_, _, _)
RECURSIVE HoistingCall(_, _, _)
RECURSIVE CallAll(_, _, _)
RECURSIVE PrimeDeps(_, _, _)
RECURSIVE PrimeArgs(_, _, _, _, _)
RECURSIVE PrimeAll(_, _, _)

\* defCache(op) of a resolver that hoists: the column name of a node it
\* defines, defining it on first use; other nodes are rendered in place
HoistingCall(h, dc, n) ==
    IF ~ shouldDefine(dc, n) THEN get_cppStrIn(h, dc, n)
    ELSE IF _getColName(dc, n) # None THEN Res([dc EXCEPT !.called = Append(@, n)], _getColName(dc, n))
    ELSE IF dc.kind = "nameless" THEN Res([dc EXCEPT !.called = Append(@, n)], None)
    ELSE Do(get_cppStrIn(h, [dc EXCEPT !.called = Append(@, n)], n), LAMBDA dc1, text :
            IF dc1.registers
            THEN Res([dc1 EXCEPT !.names = @ @@ (n :> <<"myCol", IntTok(Cardinality(DOMAIN dc1.names))>>)],
                     <<"myCol", IntTok(Cardinality(DOMAIN dc1.names))>>)
            ELSE Res(dc1, text))

\* defCache(op): the default resolver renders the node in place
__call__(h, dc, n) == IF dc.kind = "CppStrRedir" THEN get_cppStrIn(h, dc, n) ELSE HoistingCall(h, dc, n)

\* defCache(arg) for arg in ids
CallAll(h, dc, ids) ==
    IF ids = <<>> THEN Res(dc, <<>>)
    ELSE Do(__call__(h, dc, Head(ids)), LAMBDA dc1, v1 :
            Do(CallAll(h, dc1, Tail(ids)), LAMBDA dc2, vs : Res(dc2, <<v1>> \o vs)))

\* the first pass of _collectDeps over one expression: defCache(dep) for each
\* dep of n.deps(select=defCache.shouldDefine), in the order deps() yields
\* them; deps() looks at the column names as it goes
PrimeDeps(h, dc, n) ==
    IF h[n].kind \in SystKinds THEN PrimeDeps(h, dc, h[n].wrapped)
    ELSE IF ChecksColName(h[n]) /\ _getColName(dc, n) # None THEN Res(dc, <<>>)
    ELSE PrimeArgs(h, dc, DepArgs(h[n]), h[n].kind \in {"Reduce", "Combine"}, ProxyArgs(h[n]))

PrimeArgs(h, dc, as, bare, px) ==
    IF as = <<>> THEN Res(dc, <<>>)
    ELSE IF ~ HasShouldDefine(dc) THEN Err(dc, "AttributeError")
    ELSE Do(IF ~ shouldDefine(dc, Head(as)) \/ px > 0 THEN Res(dc, <<>>)
            ELSE IF bare THEN Err(dc, "AttributeError")
            ELSE __call__(h, dc, Head(as)),
            LAMBDA dc1, cn :
                Do(PrimeDeps(h, IF shouldDefine(dc, Head(as)) /\ px = 0 /\ cn = None
                                THEN [dc1 EXCEPT !.warned = Append(@, Head(as))] ELSE dc1, Head(as)),
                   LAMBDA dc2, v : PrimeArgs(h, dc2, Tail(as), bare, IF px > 0 THEN px - 1 ELSE 0)))

PrimeAll(h, dc, exprs) ==
    IF exprs = <<>> THEN Res(dc, <<>>)
    ELSE Do(PrimeDeps(h, dc, Head(exprs)), LAMBDA dc1, v : PrimeAll(h, dc1, Tail(exprs)))

\* as below, but the set is collected before the first pass has run
_collectDepsCollectFirst(h, dc, exprs, ownLocal) ==
    Do(PrimeAll(h, dc, exprs), LAMBDA dc1, v :
       Res([dc1 EXCEPT !.hashed = @ \cup (FreeOfDeps(h, dc, exprs, ownLocal) \ {0})],
           FreeOfDeps(h, dc, exprs, ownLocal)))

\* _collectDeps(exprs, ownLocal, defCache): the set of the second pass
_collectDeps(h, dc, exprs, ownLocal) ==
    Do(PrimeAll(h, dc, exprs), LAMBDA dc1, v :
       Res([dc1 EXCEPT !.hashed = @ \cup (FreeOfDeps(h, dc1, exprs, ownLocal) \ {0})],
           FreeOfDeps(h, dc1, exprs, ownLocal)))

\* any(isinstance(dp, LocalVariablePlaceholder) for dp in depList)
AnyLocal(h, depList) == \E d \in depList : d # 0 /\ h[d].kind = "LocalVariablePlaceholder"

\* "{0} {1}".format(i.typeHint, i.name) for the placeholders ids
RECURSIVE LocalDecls(_, _, _)
LocalDecls(h, dc, ids) ==
    IF ids = <<>> THEN Res(dc, <<>>)
    ELSE IF h[Head(ids)].i = None THEN Err(dc, "RuntimeError")
    ELSE Do(LocalDecls(h, dc, Tail(ids)), LAMBDA dc1, vs :
            Res(dc1, <<h[Head(ids)].typeName \o <<" ">> \o LocalName(h[Head(ids)])>> \o vs))

\* the helper call of a higher-order node, from its rendered parts: the
\* ranges (and the start value of a Reduce) in rs, the captures, the
\* declarations of its own placeholders in is, and the body
HelperText(nd, rs, captures, is, body) ==
    CASE nd.kind = "Select" ->
             <<"rdfhelpers::select(">> \o rs[1] \o <<",\n    [">> \o captures \o <<"] ( ">> \o is[1]
             \o <<" ) { return ">> \o body \o <<"; })">>
      [] nd.kind = "Sort" ->
             <<"rdfhelpers::sort(">> \o rs[1] \o <<",\n    [">> \o captures \o <<"] ( ">> \o is[1]
             \o <<" ) { return ">> \o body \o <<"; })">>
      [] nd.kind = "Map" ->
             <<"rdfhelpers::map<">> \o nd.typeName \o <<">(">> \o rs[1] \o <<",\n    [">> \o captures
             \o <<"] ( ">> \o is[1] \o <<" ) { return ">> \o body \o <<"; })">>
      [] nd.kind = "Next" ->
             <<"rdfhelpers::next(">> \o rs[1] \o <<",\n     [">> \o captures \o <<"] ( ">> \o is[1]
             \o <<" ) { return ">> \o body \o <<"; }, -1)">>
      [] nd.kind = "Reduce" ->
             <<"rdfhelpers::reduce(">> \o rs[1] \o <<", ">> \o rs[2] \o <<",\n     [">> \o captures
             \o <<"] ( ">> \o is[2] \o <<", ">> \o is[1] \o <<" ) { return ">> \o body \o <<"; })">>
      [] OTHER ->
             <<"rdfhelpers::combine", IntTok(Len(nd.ranges)), "(\n     [">> \o captures \o <<"] ( ">>
             \o JoinWith(is, <<", ">>) \o <<" ) { return ">> \o body \o <<"; },\n     ">>
             \o JoinWith(rs, <<", ">>) \o <<")">>

\* the resultType a higher-order node gives to defCache.symbol
SymbolResultType(nd) ==
    CASE nd.kind \in {"Select", "Sort"} -> <<"ROOT::VecOps::RVec<">> \o SizeType \o <<">">>
      [] nd.kind = "Map" -> <<"ROOT::VecOps::RVec<">> \o nd.typeName \o <<">">>
      [] nd.kind = "Next" -> SizeType
      [] nd.kind = "Reduce" -> nd.typeName
      [] OTHER -> ResultTypeName(nd)

\* the end of get_cppStr of a higher-order node n: inline when a placeholder
\* is among the dependencies, else a symbol and a call of it
RenderOrDefine(h, dc, n, depList, cdc, expr) ==
    IF AnyLocal(h, depList) THEN Res(dc, expr)
    ELSE IF h[n].kind = "Select"
    THEN LET norm == _normFunArgs(expr, cdc[2], cdc[3]) IN
         IF norm.err # "" THEN Err(dc, norm.err)
         ELSE Do(symbol(dc, norm.v[1], SymbolResultType(h[n]), JoinWith(norm.v[2], <<",", " ">>), n),
                 LAMBDA dc1, funName :
                     Do(JoinStrs(dc1, cdc[3]), LAMBDA dc2, call : Res(dc2, funName \o <<"(">> \o call \o <<")">>)))
    ELSE Do(JoinStrs(dc, cdc[2]), LAMBDA dc0, decls :
            Do(symbol(dc0, expr, SymbolResultType(h[n]), decls, n), LAMBDA dc1, funName :
               Do(JoinStrs(dc1, cdc[3]), LAMBDA dc2, call : Res(dc2, funName \o <<"(">> \o call \o <<")">>))))

\* get_cppStr of Select, Sort, Map, Next, Reduce, Combine
HigherOrder_get_cppStr(h, dc, n) ==
    Do(_collectDeps(h, dc, DepArgs(h[n]), Range(h[n].idx)), LAMBDA dc1, depList :
       Do(Unpack3(_convertFunArgs(h, dc1, IterOrder(depList, dc1.rev))), LAMBDA dc2, cdc :
          Do(IF h[n].kind = "Combine" THEN Res(dc2, <<>>)
             ELSE CallAll(h, dc2, SubSeq(DepArgs(h[n]), 1, Len(DepArgs(h[n])) - 1)), LAMBDA dc3, rs :
             Do(LocalDecls(h, dc3, h[n].idx), LAMBDA dc4, is :
                Do(__call__(h, dc4, h[n].expr), LAMBDA dc5, body :
                   Do(IF h[n].kind = "Combine" THEN CallAll(h, dc5, h[n].ranges) ELSE Res(dc5, rs),
                      LAMBDA dc6, rs2 :
                          RenderOrDefine(h, dc6, n, depList, cdc,
                                         HelperText(h[n], rs2, JoinWith(cdc[1], <<", ">>), is, body))))))))

\* CallMethod.get_cppStr
CallMethod_get_cppStr(h, dc, n) ==
    IF ~ HasShouldDefine(dc) THEN Err(dc, "AttributeError")
    ELSE IF ~ shouldDefine(dc, n)
    THEN Do(CallAll(h, dc, h[n].args), LAMBDA dc1, as :
            Res(dc1, h[n].name \o <<"(">> \o JoinWith(as, <<", ">>) \o <<")">>))
    ELSE Do(_collectDeps(h, dc, h[n].args, {}), LAMBDA dc1, depList :
            Do(Unpack3(_convertFunArgs(h, dc1, IterOrder(depList, dc1.rev))), LAMBDA dc2, cdc :
               Do(CallAll(h, dc2, h[n].args), LAMBDA dc3, as :
                  Do(JoinStrs(dc3, cdc[2]), LAMBDA dc4, decls :
                     Do(symbol(dc4, h[n].name \o <<"(">> \o JoinWith(as, <<", ">>) \o <<")", "\n">>,
                               h[n].typeName, decls, n), LAMBDA dc5, funName :
                        Do(JoinStrs(dc5, cdc[3]), LAMBDA dc6, call :
                           Res(dc6, funName \o <<"(">> \o call \o <<")">>)))))))

\* op.get_cppStr(defCache=dc)
get_cppStrIn(h, dc, n) ==
    CASE h[n].kind = "Const" -> Res(dc, h[n].value)
      [] h[n].kind \in {"GetColumn", "ExtVar", "GetArrayColumn"} -> Res(dc, h[n].name)
      [] h[n].kind = "MathOp" ->
           Do(CallAll(h, dc, h[n].args), LAMBDA dc1, as : Res(dc1, mathOpFuns_cppStr(h[n].name, as)))
      [] h[n].kind = "GetItem" ->
           Do(CallAll(h, dc, <<h[n].arg, h[n].index>>), LAMBDA dc1, as :
              Res(dc1, as[1] \o <<"[">> \o as[2] \o <<"]">>))
      [] h[n].kind = "CallMemberMethod" ->
           Do(CallAll(h, dc, <<h[n].this>> \o h[n].args), LAMBDA dc1, as :
              Res(dc1, as[1] \o <<".">> \o h[n].name \o <<"(">> \o JoinWith(Tail(as), <<", ">>) \o <<")">>))
      [] h[n].kind = "LocalVariablePlaceholder" ->
           IF h[n].i = None THEN Err(dc, "RuntimeError") ELSE Res(dc, LocalName(h[n]))
      [] h[n].kind \in SystKinds -> get_cppStrIn(h, dc, h[n].wrapped)
      [] h[n].kind = "CallMethod" -> CallMethod_get_cppStr(h, dc, n)
      [] OTHER -> HigherOrder_get_cppStr(h, dc, n)

\* ---------------------------------------------------------------------------
\* rendering with a resolver (SpecGen)
\*   heap     : the expressions of GenHeap, built before
\*   defCache : the resolver: the default one, or one that hoists
\*   last     : the last call, what it returned (or raised) and, for a
\*              rendering, the nodes that asked for a symbol during it

MaxSymbols == 1

RVecOfSize == <<"ROOT::VecOps::RVec<">> \o SizeType \o <<">">>

GenHeap ==
    << GetColumn(<<"int">>, <<"n", "J">>),                        \*  1  nJ
       GetArrayColumn(<<"float">>, <<"J", "p">>, 1),              \*  2  Jp
       GetColumn(<<"float">>, <<"x">>),                           \*  3  x
       Const(<<"float">>, <<"1.0">>),                             \*  4
       \* Select(Jp, Jp[i0] > 1.0)
       LocalVariablePlaceholder(SizeType, 8, <<0>>),              \*  5
       GetItem(2, <<"float">>, 5),                                \*  6
       MathOp(<<"gt">>, <<6, 4>>, <<"bool">>),                    \*  7
       RangeOp("Select", 2, 7, 5, None),                          \*  8
       \* f(x) and g(x + 1.0)
       CallMethod(<<"f">>, <<3>>, <<"float">>),                   \*  9
       MathOp(<<"add">>, <<3, 4>>, <<"float">>),                  \* 10
       CallMethod(<<"g">>, <<10>>, <<"float">>),                  \* 11
       \* Map(Jp, Select(Jp, Jp[i0] > Jp[i1])): i1 is free in the Select
       LocalVariablePlaceholder(SizeType, 18, <<1>>),             \* 12
       LocalVariablePlaceholder(SizeType, 17, <<0>>),             \* 13
       GetItem(2, <<"float">>, 13),                               \* 14
       GetItem(2, <<"float">>, 12),                               \* 15
       MathOp(<<"gt">>, <<14, 15>>, <<"bool">>),                  \* 16
       RangeOp("Select", 2, 16, 13, None),                        \* 17
       RangeOp("Map", 2, 17, 12, RVecOfSize),                     \* 18
       \* Select(h(1.0), 1.0 > 1.0): no column anywhere
       CallMethod(<<"h">>, <<4>>, <<"V">>),                       \* 19
       LocalVariablePlaceholder(SizeType, 22, <<0>>),             \* 20
       MathOp(<<"gt">>, <<4, 4>>, <<"bool">>),                    \* 21
       RangeOp("Select", 19, 21, 20, None),                       \* 22
       \* Select(Jp, Jp[i0] > f(x))
       LocalVariablePlaceholder(SizeType, 26, <<0>>),             \* 23
       GetItem(2, <<"float">>, 23),                               \* 24
       MathOp(<<"gt">>, <<24, 9>>, <<"bool">>),                   \* 25
       RangeOp("Select", 2, 25, 23, None),                        \* 26
       \* Reduce(Jp, 1.0, prev + Jp[i0])
       LocalVariablePlaceholder(SizeType, 31, <<0>>),             \* 27
       LocalVariablePlaceholder(<<"float">>, 31, <<1>>),          \* 28
       GetItem(2, <<"float">>, 27),                               \* 29
       MathOp(<<"add">>, <<28, 29>>, <<"float">>),                \* 30
       Reduce(2, <<"float">>, 4, 30, 27, 28),                     \* 31
       \* Map(Jp, the Reduce)
       LocalVariablePlaceholder(SizeType, 33, <<2>>),             \* 32
       RangeOp("Map", 2, 31, 32, <<"float">>),                    \* 33
       \* Combine((Jp, Jp), i0 < i1)
       LocalVariablePlaceholder(SizeType, 37, <<0>>),             \* 34
       LocalVariablePlaceholder(SizeType, 37, <<1>>),             \* 35
       MathOp(<<"lt">>, <<34, 35>>, <<"bool">>),                  \* 36
       Combine(<<2, 2>>, 36, <<34, 35>>),                         \* 37
       \* Next(Jp, Jp[i0] > x) and Sort(Jp, Jp[i0])
       LocalVariablePlaceholder(SizeType, 41, <<0>>),             \* 38
       GetItem(2, <<"float">>, 38),                               \* 39
       MathOp(<<"gt">>, <<39, 3>>, <<"bool">>),                   \* 40
       RangeOp("Next", 2, 40, 38, None),                          \* 41
       LocalVariablePlaceholder(SizeType, 44, <<0>>),             \* 42
       GetItem(2, <<"float">>, 42),                               \* 43
       RangeOp("Sort", 2, 43, 42, None),                          \* 44
       \* pt > 30.0
       GetColumn(<<"float">>, <<"p", "t">>),                      \* 45
       Const(<<"float">>, <<"30.0">>),                            \* 46
       MathOp(<<"gt">>, <<45, 46>>, <<"bool">>),                  \* 47
       \* k(g(x + 1.0)) + 1.0
       CallMethod(<<"k">>, <<11>>, <<"float">>),                  \* 48
       MathOp(<<"add">>, <<48, 4>>, <<"float">>),                 \* 49
       \* Map(Jp, Reduce(Jp, x, prev + Jp[i0])): the start value is a column
       LocalVariablePlaceholder(SizeType, 54, <<0>>),             \* 50
       LocalVariablePlaceholder(<<"float">>, 54, <<1>>),          \* 51
       GetItem(2, <<"float">>, 50),                               \* 52
       MathOp(<<"add">>, <<51, 52>>, <<"float">>),                \* 53
       Reduce(2, <<"float">>, 3, 53, 50, 51),                     \* 54
       LocalVariablePlaceholder(SizeType, 56, <<2>>),             \* 55
       RangeOp("Map", 2, 54, 55, <<"float">>),                    \* 56
       \* g(x + 1.0) once more, declared to return double
       CallMethod(<<"g">>, <<10>>, <<"double">>) >>               \* 57

\* the expressions that get rendered
GenRoots == {8, 9, 11, 17, 18, 22, 26, 31, 33, 37, 41, 44, 47, 49, 56}

\* what a resolver that hoists may define as columns of their own
HoistPolicies == { {}, {9}, {8, 9}, {11, 48} }

\* a resolver that knows the two g(x + 1.0) under one column name
Sharing ==
    [Hoisting({11, 57}, TRUE) EXCEPT !.names = (11 :> <<"myCol", "0">>) @@ (57 :> <<"myCol", "0">>)]

InitGen ==
    /\ heap = GenHeap
    /\ defCache \in {cppNoRedir} \cup {Hoisting(hoist, TRUE) : hoist \in HoistPolicies}
                    \cup {Hoisting({9}, FALSE), Nameless({9}), Sharing}
    /\ last = Call("init", 0, <<>>, "")
    /\ clones = <<>>
    /\ mod = NoModule
    /\ rendered = {}
    /\ stack = <<>>

\* hash(n) for the nodes ids, one after the other
RECURSIVE HashAll(_, _)
HashAll(h, ids) ==
    IF ids = <<>> THEN Ok(h, <<>>)
    ELSE Bind(__hash__(h, Head(ids)), LAMBDA h1, v : HashAll(h1, Tail(ids)))

\* n.get_cppStr(defCache=defCache)
get_cppStrOp(n, rev) ==
    /\ defCache._iFun < MaxSymbols
    /\ \E r \in {get_cppStrIn(heap, Ctx(defCache, rev), n)} :
       \E hs \in {HashAll(heap, SortedSeq(r.dc.hashed))} :
           /\ heap' = hs.h
           /\ defCache' = Resolver(r.dc)
           /\ last' = [op |-> "get_cppStr", n |-> n, name |-> <<>>,
                       out |-> IF hs.err # "" THEN hs.err ELSE r.err,
                       text |-> r.v, asked |-> r.dc.asked, before |-> defCache]
    /\ UNCHANGED <<clones, rendered, stack, mod>>

\* the calls of _collectDeps that are made directly
CollectCalls ==
    { [exprs |-> <<3>>, ownLocal |-> {}], [exprs |-> <<10>>, ownLocal |-> {}],
      [exprs |-> <<2, 7>>, ownLocal |-> {5}], [exprs |-> <<2, 16>>, ownLocal |-> {13}],
      [exprs |-> <<2, 17>>, ownLocal |-> {12}], [exprs |-> <<2, 25>>, ownLocal |-> {23}],
      [exprs |-> <<2, 31>>, ownLocal |-> {32}], [exprs |-> <<4>>, ownLocal |-> {}],
      [exprs |-> <<49>>, ownLocal |-> {}], [exprs |-> <<2, 54>>, ownLocal |-> {55}] }

\* _collectDeps(exprs, ownLocal, defCache=defCache)
_collectDepsOp(c) ==
    /\ defCache._iFun < MaxSymbols
    /\ \E r \in {_collectDeps(heap, Ctx(defCache, FALSE), c.exprs, c.ownLocal)} :
       \E hs \in {HashAll(heap, SortedSeq(r.dc.hashed))} :
           /\ heap' = hs.h
           /\ defCache' = Resolver(r.dc)
           /\ last' = [op |-> "_collectDeps", n |-> 0, name |-> <<>>,
                       out |-> IF hs.err # "" THEN hs.err ELSE r.err,
                       exprs |-> c.exprs, ownLocal |-> c.ownLocal, deps |-> r.v, before |-> defCache,
                       called |-> r.dc.called, warned |-> r.dc.warned]
    /\ UNCHANGED <<clones, rendered, stack, mod>>

\* the sets of dependencies _convertFunArgs is called on directly (0: None)
DepSets == { {}, {1, 2, 3}, {3, 9}, {12}, {4}, {3, 11, 57} }

\* the orders in which the set S may iterate
Orders(S) == {s \in [1..Cardinality(S) -> S] : \A j, k \in DOMAIN s : s[j] = s[k] => j = k}

\* list(_convertFunArgs(deps, defCache=defCache)), the set deps iterating in the order ds
_convertFunArgsOp(ds) ==
    \E r \in {_convertFunArgs(heap, Ctx(defCache, FALSE), ds)} :
        /\ last' = [op |-> "_convertFunArgs", n |-> 0, name |-> <<>>, out |-> r.err,
                    deps |-> ds, lists |-> r.v, twice |-> r.dc.twice]
        /\ UNCHANGED <<heap, defCache, clones, rendered, stack, mod>>

\* select=(lambda op : isinstance(op, GetColumn) or isinstance(op, GetArrayColumn))
ColumnReads(h) == {n \in Nodes(h) : h[n].kind \in {"GetColumn", "GetArrayColumn"}}

\* list(n.deps(defCache=defCache, select=...)) with that select
depsOp(n) ==
    /\ last' = [op |-> "deps", n |-> n, name |-> <<>>, out |-> "",
                yielded |-> depsSel(heap, defCache, n, ColumnReads(heap))]
    /\ UNCHANGED <<heap, defCache, clones, rendered, stack, mod>>

NextGen ==
    \/ \E n \in GenRoots, rev \in BOOLEAN : get_cppStrOp(n, rev)
    \/ \E n \in GenRoots : depsOp(n)
    \/ \E c \in CollectCalls : _collectDepsOp(c)
    \/ \E S \in DepSets : \E ds \in Orders(S) : _convertFunArgsOp(ds)

SpecGen == InitGen /\ [][NextGen]_vars

\* ---------------------------------------------------------------------------
\* claims on rendering with a resolver

\* the last call was a rendering of a higher-order node
RenderedHigherOrder == last.op = "get_cppStr" /\ heap[last.n].kind \in HigherOrderKinds

\* the dependencies that rendering collected for its node, with the resolver
\* as it was before
CollectedFor(n) == _collectDeps(heap, Ctx(last.before, FALSE), DepArgs(heap[n]), Range(heap[n].idx))

\* the text is the inline helper call
IsHelperCall(text) == text # <<>> /\ Head(text) \in {"rdfhelpers::select(", "rdfhelpers::sort(", "rdfhelpers::map<",
                                                     "rdfhelpers::next(", "rdfhelpers::reduce(", "rdfhelpers::combine"}

\* C12: a rendering of a Select, Sort, Map, Next, Reduce or Combine asks the
\* resolver for a symbol for the node exactly when the dependencies it
\* collected hold no placeholder; when they hold one, it returns the inline
\* helper call and asks for no symbol for the node.
C12_SymbolIffNoPlaceholder ==
    (RenderedHigherOrder /\ CollectedFor(last.n).err = "") =>
        IF AnyLocal(heap, CollectedFor(last.n).v)
        THEN /\ last.out = ""
             /\ IsHelperCall(last.text)
             /\ last.n \notin Range(last.asked)
        ELSE last.n \in Range(last.asked)

\* the free dependencies below node n (n included) for a callable whose own
\* placeholders are owned: the column reads, the nodes the resolver hoists
\* and the placeholders that neither the callable nor a higher-order node on
\* the way down owns; nothing is looked for below a node that has a column
\* name
RECURSIVE FreeBelow(_, _, _, _)
FreeBelow(h, dc, n, owned) ==
    IF h[n].kind \in SystKinds THEN FreeBelow(h, dc, h[n].wrapped, owned)
    ELSE (IF n \in FreeSelect(h, dc, owned) THEN {n} ELSE {})
         \cup (IF ChecksColName(h[n]) /\ _getColName(dc, n) # None THEN {}
               ELSE UNION {FreeBelow(h, dc, DepArgs(h[n])[k],
                                     owned \cup (IF h[n].kind \in HigherOrderKinds THEN Range(h[n].idx) ELSE {}))
                           : k \in DOMAIN DepArgs(h[n])})

FreeDependencies(h, dc, exprs, ownLocal) == UNION {FreeBelow(h, dc, exprs[k], ownLocal) : k \in DOMAIN exprs}

\* C13: what _collectDeps(roots, ownLocal) returns is exactly the set of free
\* dependencies of the roots: the column and array-column reads the roots
\* refer to (a root itself or an operand below it), the nodes the resolver
\* hoists and the placeholders owned neither by ownLocal nor by a nested
\* higher-order node, and nothing else.
C13_CollectsFreeDependencies ==
    (last.op = "_collectDeps" /\ last.out = "") =>
        last.deps = FreeDependencies(heap, defCache, last.exprs, last.ownLocal)

\* the character string a ends with the character string b
EndsWith(a, b) == Len(a) >= Len(b) /\ SubSeq(a, Len(a) - Len(b) + 1, Len(a)) = b

\* three lists of one length whose entries at one position are the capture,
\* the declaration and the call argument of one name, the declarations in
\* alphabetical order
AlignedSorted(lists) ==
    /\ Len(lists) = 3
    /\ Len(lists[1]) = Len(lists[2]) /\ Len(lists[2]) = Len(lists[3])
    /\ \A k \in DOMAIN lists[3] :
           /\ lists[3][k] # None
           /\ Spell(lists[1][k]) \in {Spell(lists[3][k]), <<"&">> \o Spell(lists[3][k])}
           /\ EndsWith(Spell(lists[2][k]), <<" ">> \o Spell(lists[3][k]))
    /\ \A j, k \in DOMAIN lists[2] : j < k => ~ StrLess(lists[2][k], lists[2][j])

\* C14: _convertFunArgs returns three aligned lists (capture, declaration,
\* call argument) sorted by declaration, and returns the same lists for
\* every order in which the set of dependencies iterates.
C14_AlignedSortedAnyOrder ==
    (last.op = "_convertFunArgs" /\ last.out = "") =>
        /\ AlignedSorted(last.lists)
        /\ \A ds \in Orders(Range(last.deps)) :
               _convertFunArgs(heap, Ctx(defCache, FALSE), ds).v = last.lists

\* a dependency the resolver hoists and has no column name for
Unnamed(dc, d) == HasShouldDefine(dc) /\ shouldDefine(dc, d) /\ _getColName(dc, d) = None

\* C15: when the resolver has no name for a hoisted dependency, building
\* the capture lists raises an error: no lists come back.
C15_UnnamedDependencyRaises ==
    (last.op = "_convertFunArgs" /\ \E k \in DOMAIN last.deps : Unnamed(defCache, last.deps[k])) =>
        last.out # ""

\* the inline form of node n: the helper call of a higher-order node, the
\* call by its own name of a CallMethod
IsInline(n, text) ==
    IF heap[n].kind = "CallMethod"
    THEN Len(text) > Len(heap[n].name) /\ SubSeq(text, 1, Len(heap[n].name)) = heap[n].name
    ELSE IsHelperCall(text)

\* C16: with the default resolver nothing is hoisted: rendering a CallMethod
\* or a higher-order node raises no error, returns the inline form and asks
\* for no symbol.
C16_DefaultResolverInline ==
    (/\ last.op = "get_cppStr"
     /\ last.before.kind = "CppStrRedir"
     /\ heap[last.n].kind \in HigherOrderKinds \cup {"CallMethod"}) =>
        /\ last.out = ""
        /\ IsInline(last.n, last.text)
        /\ last.asked = <<>>

\* the last call rendered the comparison pt > 30.0 with the default resolver
RenderedComparison ==
    /\ last.op = "get_cppStr"
    /\ last.before.kind = "CppStrRedir"
    /\ heap[last.n].kind = "MathOp" /\ heap[last.n].name = <<"gt">>
    /\ heap[heap[last.n].args[1]].kind = "GetColumn" /\ heap[heap[last.n].args[1]].name = <<"p", "t">>
    /\ heap[heap[last.n].args[2]].kind = "Const" /\ heap[heap[last.n].args[2]].value = <<"30.0">>

\* C17: with the default resolver the comparison gt of the column pt and the
\* constant 30.0 renders character for character as "( pt >  30.0 )": the
\* operands in parentheses, the operator padded to two characters.
C17_ComparisonText ==
    RenderedComparison =>
        /\ last.out = ""
        /\ Spell(last.text) = <<"(", " ", "p", "t", " ", ">", " ", " ", "3", "0", ".", "0", " ", ")">>

C17_Witness == RenderedComparison /\ last.out = "" /\ Len(Spell(last.text)) = 14

\* ---------------------------------------------------------------------------
\* adaptArg (SpecAdapt)
\*   heap : the nodes there are; adaptArg adds a Const for a literal
\*   last : the last call of adaptArg, its argument and type hint, what it
\*          returned (n) or raised (out)

MaxAdapted == 3

\* the arguments: a proxy (its _parent is a node, or 0 for None), a node, or
\* a plain value (a str or a number, with the text of the value)
Proxy(parent) == [tag |-> "proxy", parent |-> parent, isStr |-> FALSE, text |-> <<>>]
AnOp(n) == [tag |-> "op", parent |-> n, isStr |-> FALSE, text |-> <<>>]
Literal(isStr, text) == [tag |-> "literal", parent |-> 0, isStr |-> isStr, text |-> text]

Literals == {Literal(FALSE, <<"3">>), Literal(FALSE, <<"2.5">>), Literal(TRUE, <<"a", "b", "c">>)}

TypeHints == {None, <<"int">>, <<"float">>, <<"std::string">>}

InitAdapt ==
    /\ heap = << GetColumn(<<"float">>, <<"x">>), Const(<<"float">>, <<"1.0">>) >>
    /\ last = Call("init", 0, <<>>, "")
    /\ clones = <<>>
    /\ mod = NoModule
    /\ rendered = {}
    /\ stack = <<>>
    /\ defCache = cppNoRedir

\* TupleBaseProxy.op
Proxy_op(h, arg) == IF arg.parent = 0 THEN Raise(h, "ValueError") ELSE Ok(h, arg.parent)

\* as below, but a str is taken as it is
adaptArgUnquoted(h, arg, typeHint) ==
    IF arg.tag = "proxy" THEN Proxy_op(h, arg)
    ELSE IF arg.tag = "op" THEN Ok(h, arg.parent)
    ELSE IF typeHint # None THEN Ok(Append(h, Const(typeHint, arg.text)), Len(h) + 1)
    ELSE Raise(h, "ValueError")

\* adaptArg(arg, typeHint=typeHint)
adaptArg(h, arg, typeHint) ==
    IF arg.tag = "proxy" THEN Proxy_op(h, arg)
    ELSE IF arg.tag = "op" THEN Ok(h, arg.parent)
    ELSE IF typeHint # None
    THEN IF arg.isStr
         THEN Ok(Append(h, Const(typeHint, <<Quote>> \o arg.text \o <<Quote>>)), Len(h) + 1)
         ELSE Ok(Append(h, Const(typeHint, arg.text)), Len(h) + 1)
    ELSE Raise(h, "ValueError")

adaptArgOp(arg, typeHint) ==
    /\ Len(heap) < 2 + MaxAdapted
    /\ \E r \in {adaptArg(heap, arg, typeHint)} :
           /\ heap' = r.h
           /\ last' = [op |-> "adaptArg", n |-> IF r.err = "" THEN r.v ELSE 0, name |-> <<>>, out |-> r.err,
                       arg |-> arg, typeHint |-> typeHint]
    /\ UNCHANGED <<clones, rendered, stack, defCache, mod>>

NextAdapt ==
    \E typeHint \in TypeHints :
        \/ \E n \in Nodes(heap) \cup {0} : adaptArgOp(Proxy(n), typeHint)
        \/ \E n \in Nodes(heap) : adaptArgOp(AnOp(n), typeHint)
        \/ \E l \in Literals : adaptArgOp(l, typeHint)

SpecAdapt == InitAdapt /\ [][NextAdapt]_vars

\* what a call of adaptArg has to do between heap and heap'
AdaptedAsSpecified ==
    CASE last'.arg.tag = "proxy" /\ last'.arg.parent # 0 ->
             last'.out = "" /\ last'.n = last'.arg.parent /\ heap' = heap
      [] last'.arg.tag = "op" ->
             last'.out = "" /\ last'.n = last'.arg.parent /\ heap' = heap
      [] last'.arg.tag = "literal" /\ last'.typeHint # None ->
             /\ last'.out = ""
             /\ last'.n = Len(heap) + 1
             /\ heap' = Append(heap, Const(last'.typeHint,
                                          IF last'.arg.isStr THEN <<Quote>> \o last'.arg.text \o <<Quote>>
                                          ELSE last'.arg.text))
      [] last'.arg.tag = "literal" /\ last'.typeHint = None ->
             last'.out = "ValueError" /\ heap' = heap
      [] OTHER -> TRUE

\* C18: adaptArg gives the operation of a proxy, gives back a node as it is,
\* makes a Const of the hinted type from a plain value (a str in double
\* quotes), and raises ValueError for a plain value without a type hint,
\* creating no node.
C18_AdaptArg == [][last'.op = "adaptArg" => AdaptedAsSpecified]_vars

C18_Witness ==
    /\ last.op = "adaptArg" /\ last.out = "" /\ last.arg.isStr
    /\ heap[last.n].value = <<Quote, "a", "b", "c", Quote>>
    /\ \E k \in Nodes(heap) : heap[k].kind = "Const" /\ heap[k].typeName = <<"int">> /\ heap[k].value = <<"3">>

\* the factory that allocated placeholder p has not yet given it its index
\* (it sets _parent in the same step)
BeforeAssignment(p) == heap[p].parent = 0

\* C19: the name of a placeholder of a higher-order factory, asked for
\* before the factory has assigned its index, is the RuntimeError "Using
\* LocalVariablePlaceholder before giving it an index"; a name only comes
\* from an assigned index.
C19_NameBeforeIndexRaises ==
    (last.op = "name" /\ BeforeAssignment(last.n)) => last.out = "RuntimeError"

\* ---------------------------------------------------------------------------
\* AnalysisModule.run (SpecRun)
\*   mod : the module and its run: args (the parsed command line), what is
\*         there outside (envConfig: the batch backend of the config file
\*         that readEnvConfig finds, "" for no file; resultsdir: whether
\*         <output>/results exists; nTasks: the samples of the analysis
\*         config), pc (where run() is), calls (the methods and helpers
\*         called so far), raised (the exception that ended run()), taskArgs
\*         (what getTasks returned) and k (tasks processed, or jobs
\*         submitted); existed: whether <output>/results was there when
\*         run() was called

MaxTasks == 2

\* file names, character by character
Outputs ==
    { [name |-> <<"o", ".", "r", "o", "o", "t">>, isdir |-> FALSE],
      [name |-> <<"r", "o", "o", "t">>, isdir |-> FALSE],
      [name |-> <<"d", ".", "r", "o", "o", "t">>, isdir |-> TRUE] }

Inputs == { <<>>, <<"a">>, <<"a", "b">> }

Distributed == {"", "worker", "driver", "other"}

Backends == {"", "slurm", "htcondor", "other"}

InitRun ==
    /\ heap = <<>>
    /\ last = Call("init", 0, <<>>, "")
    /\ clones = <<>>
    /\ rendered = {}
    /\ stack = <<>>
    /\ defCache = cppNoRedir
    /\ \E interactive \in BOOLEAN, distributed \in Distributed, input \in Inputs, output \in Outputs,
          onlypost \in BOOLEAN, envConfig \in Backends, resultsdir \in BOOLEAN, nTasks \in 0..MaxTasks :
           mod = [args |-> [interactive |-> interactive, distributed |-> distributed, input |-> input,
                            output |-> output, onlypost |-> onlypost],
                  envConfig |-> envConfig, resultsdir |-> resultsdir, existed |-> resultsdir, nTasks |-> nTasks,
                  pc |-> "run", calls |-> <<>>, raised |-> "", taskArgs |-> <<>>, k |-> 0]

\* one call, with the inputs and output it is given (processTrees)
Called(f, inputs, output) == [f |-> f, inputs |-> inputs, output |-> output]

raise(err) == [mod EXCEPT !.pc = "raised", !.raised = err]

\* output.endswith(".root")
EndsWithRoot(output) == EndsWith(output.name, <<".", "r", "o", "o", "t">>)

\* the output a worker may write to
WorkerOutputOk(output) == ~ ((~ EndsWithRoot(output)) \/ output.isdir)

\* the tasks getTasks makes from the samples: (inputs, output), kwargs
getTasks(nTasks) == [j \in 1..nTasks |-> [inputs |-> <<"f", IntTok(j)>>, output |-> <<"s", IntTok(j), ".root">>]]

\* if self.args.interactive: self.interact()
run_interact ==
    /\ mod.pc = "run" /\ mod.args.interactive
    /\ mod' = [mod EXCEPT !.calls = Append(@, Called("interact", <<>>, <<>>)), !.pc = "returned"]
    /\ UNCHANGED <<heap, last, clones, rendered, stack, defCache>>

\* worker mode
run_worker ==
    /\ mod.pc = "run" /\ ~ mod.args.interactive /\ mod.args.distributed = "worker"
    /\ mod' = IF ~ WorkerOutputOk(mod.args.output) THEN raise("RuntimeError")
              ELSE [mod EXCEPT !.calls = Append(@, Called("processTrees", mod.args.input, mod.args.output.name)),
                               !.pc = "returned"]
    /\ UNCHANGED <<heap, last, clones, rendered, stack, defCache>>

\* driver or sequential mode, up to getTasks and downloadCertifiedLumiFiles
run_driver ==
    /\ mod.pc = "run" /\ ~ mod.args.interactive /\ mod.args.distributed \in {"", "driver"}
    /\ mod' = IF Len(mod.args.input) # 1 THEN raise("RuntimeError")
              ELSE IF mod.envConfig = "" THEN raise("RuntimeError")
              ELSE [mod EXCEPT !.calls = @ \o << Called("readEnvConfig", <<>>, <<>>),
                                                 Called("parseAnalysisConfig", mod.args.input, <<>>),
                                                 Called("getTasks", <<>>, <<>>),
                                                 Called("downloadCertifiedLumiFiles", <<>>, <<>>) >>,
                               !.taskArgs = getTasks(mod.nTasks),
                               !.pc = "resultsdir"]
    /\ UNCHANGED <<heap, last, clones, rendered, stack, defCache>>

\* any other value of --distributed
run_else ==
    /\ mod.pc = "run" /\ ~ mod.args.interactive /\ mod.args.distributed \notin {"", "worker", "driver"}
    /\ mod' = raise("RuntimeError")
    /\ UNCHANGED <<heap, last, clones, rendered, stack, defCache>>

\* the results directory: it has to be there with --onlypost; else it is
\* made, and os.makedirs raises when it is there already
run_resultsdir ==
    /\ mod.pc = "resultsdir"
    /\ mod' = IF mod.args.onlypost
              THEN IF ~ mod.resultsdir THEN raise("RuntimeError") ELSE [mod EXCEPT !.pc = "postProcess"]
              ELSE IF mod.resultsdir
              THEN [mod EXCEPT !.calls = Append(@, Called("logger.warning", <<>>, <<>>)),
                               !.pc = "raised", !.raised = "FileExistsError"]
              ELSE [mod EXCEPT !.resultsdir = TRUE,
                               !.pc = IF mod.args.distributed = "" THEN "sequential" ELSE "batch"]
    /\ UNCHANGED <<heap, last, clones, rendered, stack, defCache>>

\* sequential mode: for (inputs, output), kwargs in taskArgs: processTrees
run_sequential ==
    /\ mod.pc = "sequential"
    /\ mod' = IF mod.k < Len(mod.taskArgs)
              THEN [mod EXCEPT !.calls = Append(@, Called("processTrees", mod.taskArgs[mod.k + 1].inputs,
                                                          <<"results/">> \o mod.taskArgs[mod.k + 1].output)),
                               !.k = @ + 1]
              ELSE [mod EXCEPT !.pc = "postProcess"]
    /\ UNCHANGED <<heap, last, clones, rendered, stack, defCache>>

\* driver mode: the tasks are split and made into jobs of the batch backend
\* (one job for a task)
run_batch ==
    /\ mod.pc = "batch"
    /\ mod' = IF mod.envConfig \notin {"slurm", "htcondor"} THEN raise("RuntimeError")
              ELSE [mod EXCEPT !.calls = Append(@, Called("jobsFromTasks", <<>>, <<>>)), !.pc = "submit"]
    /\ UNCHANGED <<heap, last, clones, rendered, stack, defCache>>

\* for j in clusJobs: j.submit(); then the monitor is made and waited for
run_submit ==
    /\ mod.pc = "submit"
    /\ mod' = IF mod.k < Len(mod.taskArgs)
              THEN [mod EXCEPT !.calls = Append(@, Called("submit", mod.taskArgs[mod.k + 1].inputs,
                                                          mod.taskArgs[mod.k + 1].output)),
                               !.k = @ + 1]
              ELSE [mod EXCEPT !.calls = @ \o << Called("makeTasksMonitor", <<>>, <<>>),
                                                 Called("collect", <<>>, <<>>) >>,
                               !.pc = "postProcess"]
    /\ UNCHANGED <<heap, last, clones, rendered, stack, defCache>>

\* self.postProcess(taskArgs, ...)
run_postProcess ==
    /\ mod.pc = "postProcess"
    /\ mod' = [mod EXCEPT !.calls = Append(@, Called("postProcess", <<>>, <<>>)), !.pc = "returned"]
    /\ UNCHANGED <<heap, last, clones, rendered, stack, defCache>>

NextRun ==
    \/ run_interact
    \/ run_worker
    \/ run_driver
    \/ run_else
    \/ run_resultsdir
    \/ run_sequential
    \/ run_batch
    \/ run_submit
    \/ run_postProcess

SpecRun == InitRun /\ [][NextRun]_vars

\* run() is over
Over == mod.pc \in {"returned", "raised"}

\* how often f was called
Times(f) == Cardinality({j \in DOMAIN mod.calls : mod.calls[j].f = f})

\* C20: a call of run() takes one path.  With --interactive only interact()
\* is called.  Otherwise a worker calls processTrees exactly once, with the
\* given inputs and output, and never getTasks or postProcess; a worker
\* output that does not end in ".root" or is a directory raises RuntimeError
\* before processTrees is called.  Otherwise (driver, or no --distributed)
\* getTasks is called and postProcess is called; the only other way out is
\* a RuntimeError with which run() refuses its arguments or its environment,
\* and then postProcess is not called.
C20_OnePathPerRun ==
    Over =>
        IF mod.args.interactive
        THEN mod.raised = "" /\ mod.calls = <<Called("interact", <<>>, <<>>)>>
        ELSE IF mod.args.distributed = "worker"
        THEN /\ Times("getTasks") = 0 /\ Times("postProcess") = 0 /\ Times("interact") = 0
             /\ IF EndsWithRoot(mod.args.output) /\ ~ mod.args.output.isdir
                THEN mod.raised = "" /\ mod.calls = <<Called("processTrees", mod.args.input, mod.args.output.name)>>
                ELSE mod.raised = "RuntimeError" /\ mod.calls = <<>>
        ELSE IF mod.args.distributed \in {"", "driver"}
        THEN /\ Times("interact") = 0
             /\ IF mod.raised = "RuntimeError" THEN Times("postProcess") = 0
                ELSE mod.raised = "" /\ Times("getTasks") = 1 /\ Times("postProcess") = 1
        ELSE TRUE

\* run() went down the driver or sequential path and was not refused with a
\* RuntimeError
DriverRunOver ==
    /\ Over /\ ~ mod.args.interactive /\ mod.args.distributed \in {"", "driver"}
    /\ mod.raised # "RuntimeError"

\* the positions in calls of the calls of f
Positions(f) == {j \in DOMAIN mod.calls : mod.calls[j].f = f}

\* the calls of f, in their order
CallsOf(f) == SelectSeq(mod.calls, LAMBDA c : c.f = f)

\* C24: a driver or sequential run that is not refused calls postProcess
\* exactly once, as its last call.  Without --onlypost that is after
\* processTrees was called for every task, in task order (sequential), or
\* after every job was submitted and then collect() was called once
\* (driver); with --onlypost nothing is processed or submitted.  With
\* --onlypost and no results directory run() raises RuntimeError.
C24_PostProcessOnceAndLast ==
    /\ DriverRunOver =>
           /\ mod.raised = ""
           /\ Positions("postProcess") = {Len(mod.calls)}
           /\ IF mod.args.onlypost
              THEN Positions("processTrees") \cup Positions("submit") \cup Positions("collect") = {}
              ELSE IF mod.args.distributed = ""
              THEN CallsOf("processTrees") =
                       [j \in DOMAIN mod.taskArgs |->
                           Called("processTrees", mod.taskArgs[j].inputs, <<"results/">> \o mod.taskArgs[j].output)]
              ELSE /\ CallsOf("submit") =
                          [j \in DOMAIN mod.taskArgs |->
                              Called("submit", mod.taskArgs[j].inputs, mod.taskArgs[j].output)]
                   /\ Cardinality(Positions("collect")) = 1
                   /\ \A j \in Positions("submit"), c \in Positions("collect") : j < c
    /\ (Over /\ mod.pc = "raised" /\ Times("getTasks") = 1 /\ mod.args.onlypost) =>
           ~ mod.existed /\ mod.raised = "RuntimeError" /\ Times("postProcess") = 0

\* C29: a driver or sequential run without --onlypost that finds the results
\* directory already there logs the warning, raises nothing, processes (or
\* submits) every task and calls postProcess.
C29_ExistingResultsTolerated ==
    (DriverRunOver /\ Times("getTasks") = 1 /\ ~ mod.args.onlypost /\ mod.existed) =>
        /\ Times("logger.warning") = 1
        /\ mod.raised = ""
        /\ Times("processTrees") + Times("submit") = Len(mod.taskArgs)
        /\ Times("postProcess") = 1

\* ---------------------------------------------------------------------------
\* the two passes of _collectDeps

\* the dependencies of the roots the resolver flags for hoisting, as deps()
\* yields them with the resolver dc
Flagged(h, dc, exprs) ==
    UNION {Range(depsSel(h, dc, exprs[k], dc.hoist \cap Nodes(h))) : k \in DOMAIN exprs} \ {0}

\* C21: when _collectDeps returns, every dependency of the roots that the
\* resolver flagged has gone through defCache(dep) during the call, and the
\* set returned is the one the collection pass finds with the resolver as
\* the priming pass left it (nothing is collected below a node the priming
\* defined); a call that logged the "no name" warning still returns its set.
C21_PrimingBeforeCollection ==
    last.op = "_collectDeps" =>
        /\ last.out = "" =>
               /\ Flagged(heap, last.before, last.exprs) \subseteq Range(last.called)
               /\ last.deps = FreeOfDeps(heap, defCache, last.exprs, last.ownLocal)
        /\ last.warned # <<>> => last.out = ""

\* a call whose priming pass defined a column that the collection pass then
\* found as a leaf
C21_Witness ==
    /\ last.op = "_collectDeps" /\ last.out = ""
    /\ \E d \in last.deps \ {0} :
           /\ d \in Flagged(heap, last.before, last.exprs)
           /\ _getColName(last.before, d) = None
           /\ _getColName(defCache, d) # None
           /\ last.deps # FreeOfDeps(heap, last.before, last.exprs, last.ownLocal)

\* ---------------------------------------------------------------------------
\* what deps() yields

\* the operands of node nd that deps() tests with select: its arguments
\* without the ranges a Reduce or Combine keeps as proxies
TestedOperands(nd) == {DepArgs(nd)[k] : k \in (ProxyArgs(nd) + 1)..Len(DepArgs(nd))}

\* C22: deps(select) yields only operand nodes, for every class: each item
\* yielded is a node below the node asked that satisfies select, and each
\* direct operand that satisfies select is yielded; so a set returned by
\* _collectDeps holds nothing that _convertFunArgs would refuse as a
\* dependency of unknown type.
C22_DepsYieldOperands ==
    /\ last.op = "deps" =>
           /\ \A k \in DOMAIN last.yielded :
                  /\ last.yielded[k] \in Reach(heap, last.n) \ {last.n}
                  /\ last.yielded[k] \in ColumnReads(heap)
           /\ (~ ChecksColName(heap[last.n]) \/ _getColName(defCache, last.n) = None) =>
                  (TestedOperands(heap[last.n]) \cap ColumnReads(heap)) \subseteq Range(last.yielded)
    /\ (last.op = "_collectDeps" /\ last.out = "") =>
           _convertFunArgs(heap, Ctx(defCache, FALSE), IterOrder(last.deps, FALSE)).err # "AssertionError"

\* ---------------------------------------------------------------------------
\* the classification of _convertFunArgs

\* a dependency of none of the kinds _convertFunArgs knows: no array-column
\* read, column read or placeholder, and no node the resolver hoists
UnknownKind(h, dc, d) ==
    /\ h[d].kind \notin {"GetArrayColumn", "GetColumn", "LocalVariablePlaceholder"}
    /\ ~ (HasShouldDefine(dc) /\ shouldDefine(dc, d))

\* two hoisted dependencies of the last call have the column name nm
SharedName(nm) ==
    \E j, k \in DOMAIN last.deps :
        /\ j # k
        /\ \A d \in {last.deps[j], last.deps[k]} :
               HasShouldDefine(defCache) /\ shouldDefine(defCache, d) /\ _getColName(defCache, d) = nm

\* C23: a call of _convertFunArgs with a dependency of unknown kind raises
\* AssertionError; a call on dependencies of known kinds two of which are
\* hoisted under one column name raises nothing, notes the second one as
\* being there twice and returns exactly one capture, declaration and call
\* argument for that name.
C23_TwiceWarnsUnknownRaises ==
    last.op = "_convertFunArgs" =>
        IF \E k \in DOMAIN last.deps : UnknownKind(heap, defCache, last.deps[k])
        THEN last.out = "AssertionError"
        ELSE \A d \in Range(last.deps) :
                 (_getColName(defCache, d) # None /\ SharedName(_getColName(defCache, d))) =>
                     /\ last.out = ""
                     /\ last.twice # <<>>
                     /\ Cardinality({k \in DOMAIN last.lists[3] :
                                        last.lists[3][k] = _getColName(defCache, d)}) = 1
                     /\ Cardinality({k \in DOMAIN last.lists[1] :
                                        last.lists[1][k] = <<"&">> \o _getColName(defCache, d)}) = 1

\* ---------------------------------------------------------------------------
\* the owner of a placeholder

\* C25: the _parent of every placeholder a higher-order node holds (its _i,
\* and the _prevRes of a Reduce) is that node, for the nodes a factory made
\* and for their clones.
C25_PlaceholderOwnedByHolder ==
    \A n \in Nodes(heap) :
        heap[n].kind \in HigherOrderKinds =>
            \A k \in DOMAIN heap[n].idx : heap[heap[n].idx[k]].parent = n

\* ---------------------------------------------------------------------------
\* the placeholders of a Combine

\* C26: a Combine built by fromRngFun(num, ranges, ...) holds one placeholder
\* for each of its ranges: as many placeholders as ranges, num of each, and
\* its lambda is rendered with as many index parameters as it has ranges.
C26_OnePlaceholderPerRange ==
    last.op = "Combine.fromRngFun" =>
        /\ Len(heap[last.n].idx) = Len(heap[last.n].ranges)
        /\ Len(heap[last.n].idx) = last.num
        /\ Len(LocalDecls(heap, defCache, heap[last.n].idx).v) = Len(heap[last.n].ranges)

\* ---------------------------------------------------------------------------
\* rendering with no free dependency

\* the last call rendered a higher-order node, or a CallMethod the resolver
\* hoists, and the dependencies collected for it are the empty set
RenderedWithoutDependencies ==
    /\ last.op = "get_cppStr"
    /\ \/ heap[last.n].kind \in HigherOrderKinds
       \/ /\ heap[last.n].kind = "CallMethod"
          /\ HasShouldDefine(last.before) /\ shouldDefine(last.before, last.n)
          /\ _getColName(last.before, last.n) = None
    /\ CollectedFor(last.n).err = ""
    /\ CollectedFor(last.n).v = {}

\* C27: rendering a higher-order node or a hoisted CallMethod for which no
\* free dependency is collected raises nothing: it returns the call of a
\* symbol with no argument, "name()".
C27_NoDependenciesRenders ==
    RenderedWithoutDependencies =>
        /\ last.out = ""
        /\ Len(last.text) = 3 /\ last.text[2] = "(" /\ last.text[3] = ")"

\* ---------------------------------------------------------------------------
\* comparison as an observation (SpecEq)

\* C28: a == b for two distinct nodes leaves the hash and the repr of both
\* cached, and a variation wrapper among them then refuses every
\* changeVariation with RuntimeError; a == a changes nothing.
C28_ComparisonFreezes ==
    [][\A a, b \in Roots(heap) :
           EqOp(a, b) =>
               IF a = b THEN heap' = heap
               ELSE /\ \A n \in {a, b} :
                         heap'[n].cache.hash # None /\ heap'[n].cache.repr # None
                    /\ \A w \in {a, b} \cap Wrappers(heap') :
                         \A name \in TriedNames(heap', w) :
                             changeVariation(heap', w, name).err = "RuntimeError"]_vars

(***************************************************************************)
(* The module-specific arguments (SpecArgv): AnalysisModule.__init__ parses *)
(* the command line and keeps reproduceArgv(args, specific) for the worker  *)
(* command lines.  mod holds the argument group, the command line, the      *)
(* parsed values (args), the list (specificArgv) and what parsing that list *)
(* with the same group gives (again).                                       *)
(***************************************************************************)
\* a Python value: None, a str (a sequence of pieces), an int or a bool
PyNone == [t |-> "none", s |-> <<>>, i |-> 0]
PyStr(s) == [t |-> "str", s |-> s, i |-> 0]
PyInt(i) == [t |-> "int", s |-> <<>>, i |-> i]
PyBool(b) == [t |-> "bool", s |-> <<>>, i |-> IF b THEN 1 ELSE 0]

\* "--name"
Long(name) == <<"-", "-", name>>

\* an action of the group, as add_argument makes it
Action(kind, name, type, default) ==
    [kind |-> kind, option_strings |-> <<Long(name)>>, dest |-> name, type |-> type, default |-> default]

\* the actions addArgs may add: a flag, options with no type, with type=str
\* (with and without a default), with type=int, and two kinds that are neither store_true
\* nor store
GroupActions ==
    { Action("store_true", "flag", "none", PyBool(FALSE)),
      Action("store", "name", "none", PyNone),
      Action("store", "tree", "str", PyStr(<<"d">>)),
      Action("store", "env", "str", PyNone),
      Action("store", "num", "int", PyNone),
      Action("store_false", "no", "none", PyBool(TRUE)),
      Action("count", "c", "none", PyNone) }

MaxActions == 2

\* the groups: up to MaxActions actions, no action twice
Groups ==
    { g \in UNION { [1 .. k -> GroupActions] : k \in 1 .. MaxActions } :
        \A j, k \in DOMAIN g : j # k => g[j] # g[k] }

\* the ways one action is given on a command line: not at all, or its option
\* string, alone, followed by a value, or joined to a value that starts with
\* a dash ("--name=-v")
WaysGiven(a) ==
    LET opt == PyStr(a.option_strings[1]) IN
    {<<>>} \cup
    (IF a.kind # "store" THEN { <<opt>> }
     ELSE IF a.type = "int" THEN { <<opt, PyStr(<<"3">>)>> }
     ELSE { <<opt, PyStr(<<"v">>)>>, <<PyStr(a.option_strings[1] \o <<"=", "-", "v">>)>> })

RECURSIVE CommandLines(_)
CommandLines(g) ==
    IF g = <<>> THEN { <<>> }
    ELSE { w \o rest : w \in WaysGiven(Head(g)), rest \in CommandLines(Tail(g)) }

\* the type of an action applied to a command-line string, or to whatever
\* else stands in the list: no type gives the value back, str makes "None"
\* of None, int of something that is no number is an error of the parser
Convert(type, tok) ==
    CASE type = "none" -> Text(tok)
      [] type = "str" -> Text(IF tok.t = "none" THEN PyStr(<<"None">>) ELSE tok)
      [] OTHER ->
           IF tok.t = "str" /\ Len(tok.s) = 1 /\ tok.s[1] \in {IntTok(n) : n \in 0 .. 9}
           THEN Text(PyInt(CHOOSE n \in 0 .. 9 : IntTok(n) = tok.s[1]))
           ELSE Fail("SystemExit")

\* an argument that starts with a prefix character is taken for an option
LooksLikeOption(tok) == tok.t = "str" /\ tok.s # <<>> /\ tok.s[1] = "-"

\* the namespace before any argument is read: the defaults
ActionOf(g, d) == g[CHOOSE k \in DOMAIN g : g[k].dest = d]
Defaults(g) == [d \in {g[k].dest : k \in DOMAIN g} |-> ActionOf(g, d).default]

RECURSIVE ParseFrom(_, _, _)
\* ArgumentParser.parse_args for the options of the group: an int in the
\* list cannot be indexed (TypeError); None and "" are no options; an option
\* is looked up by the text before "="; store takes the text after "=" or
\* the next argument, which must not look like an option
ParseFrom(g, argv, ns) ==
    IF argv = <<>> THEN Text(ns)
    ELSE LET tok == Head(argv)
             eq == IndexIn("=", tok.s)
             opt == IF eq = 0 THEN tok.s ELSE SubSeq(tok.s, 1, eq - 1)
             known == {k \in DOMAIN g : opt \in Range(g[k].option_strings)}
         IN  IF tok.t = "int" THEN Fail("TypeError")
             ELSE IF ~LooksLikeOption(tok) THEN ParseFrom(g, Tail(argv), ns)
             ELSE IF known = {} THEN Fail("SystemExit")
             ELSE LET a == g[CHOOSE k \in known : TRUE] IN
                  IF a.kind # "store"
                  THEN IF eq # 0 THEN Fail("SystemExit")
                       ELSE ParseFrom(g, Tail(argv),
                                [ns EXCEPT ![a.dest] =
                                    CASE a.kind = "store_true" -> PyBool(TRUE)
                                      [] a.kind = "store_false" -> PyBool(FALSE)
                                      [] OTHER -> PyInt(@.i + 1)])
                  ELSE IF eq # 0
                  THEN LET c == Convert(a.type, PyStr(SubSeq(tok.s, eq + 1, Len(tok.s)))) IN
                       IF c.err # "" THEN c
                       ELSE ParseFrom(g, Tail(argv), [ns EXCEPT ![a.dest] = c.v])
                  ELSE IF Tail(argv) = <<>> THEN Fail("SystemExit")
                  ELSE IF argv[2].t = "int" THEN Fail("TypeError")
                  ELSE IF LooksLikeOption(argv[2]) THEN Fail("SystemExit")
                  ELSE LET c == Convert(a.type, argv[2]) IN
                       IF c.err # "" THEN c
                       ELSE ParseFrom(g, Tail(Tail(argv)), [ns EXCEPT ![a.dest] = c.v])

parse_args(g, argv) == ParseFrom(g, argv, Defaults(g))

RECURSIVE reproduceArgv(_, _)
\* reproduceArgv(args, group), over group._group_actions in order
reproduceArgv(args, actions) ==
    IF actions = <<>> THEN Text(<<>>)
    ELSE LET action == Head(actions)
             rest == reproduceArgv(args, Tail(actions))
         IN  IF action.kind \notin {"store_true", "store"} THEN Fail("RuntimeError")
             ELSE IF rest.err # "" THEN rest
             ELSE IF action.kind = "store_true"
             THEN Text((IF args[action.dest].i = 1 THEN <<PyStr(action.option_strings[1])>> ELSE <<>>)
                       \o rest.v)
             ELSE Text(<<PyStr(action.option_strings[1]), args[action.dest]>> \o rest.v)

InitArgv ==
    /\ heap = <<>>
    /\ last = Call("init", 0, <<>>, "")
    /\ clones = <<>>
    /\ rendered = {}
    /\ defCache = cppNoRedir
    /\ stack = <<>>
    /\ \E g \in Groups : \E argv \in CommandLines(g) :
           mod = [pc |-> "new", group |-> g, argv |-> argv, args |-> <<>>,
                  specificArgv |-> <<>>, raised |-> "", again |-> <<>>]

\* AnalysisModule.__init__: parse_args, then reproduceArgv
__init__ ==
    /\ mod.pc = "new"
    /\ LET p == parse_args(mod.group, mod.argv)
           r == reproduceArgv(p.v, mod.group)
       IN  mod' = IF p.err # "" THEN [mod EXCEPT !.pc = "raised", !.raised = p.err]
                  ELSE IF r.err # "" THEN [mod EXCEPT !.pc = "raised", !.args = p.v, !.raised = r.err]
                  ELSE [mod EXCEPT !.pc = "constructed", !.args = p.v, !.specificArgv = r.v]
    /\ UNCHANGED <<heap, last, clones, rendered, stack, defCache>>

\* the list parsed with the group it was made from
parse_again ==
    /\ mod.pc = "constructed"
    /\ LET p == parse_args(mod.group, mod.specificArgv) IN
       mod' = IF p.err # "" THEN [mod EXCEPT !.pc = "again", !.raised = p.err]
              ELSE [mod EXCEPT !.pc = "again", !.again = p.v]
    /\ UNCHANGED <<heap, last, clones, rendered, stack, defCache>>

NextArgv ==
    \/ __init__
    \/ parse_again

SpecArgv == InitArgv /\ [][NextArgv]_vars

\* the group holds an action that is neither store_true nor store
HasOtherKind(g) == \E k \in DOMAIN g : g[k].kind \notin {"store_true", "store"}

\* C30: for a group of store_true and store actions the list is made of
\* strings only and, parsed with the same group, gives the parsed values
\* again, whether an option was given or not; a group with an action of
\* another kind raises RuntimeError.
C30_ArgvRoundTrips ==
    /\ mod.pc = "constructed" =>
           /\ ~HasOtherKind(mod.group)
           /\ \A k \in DOMAIN mod.specificArgv : mod.specificArgv[k].t = "str"
    /\ mod.pc = "again" => mod.raised = "" /\ mod.again = mod.args
    /\ mod.pc = "raised" /\ mod.raised = "RuntimeError" => HasOtherKind(mod.group)
    /\ mod.pc \in {"constructed", "raised"} /\ mod.args # <<>> /\ HasOtherKind(mod.group) =>
           mod.raised = "RuntimeError"
====
